---- MODULE Spec2Model ----
(***************************************************************************)
(* Color Improv: the timing/transport engine (TimingEngine), the voice     *)
(* engine (AudioEngine.playNote / stopNote / stopAllSamples) and the       *)
(* sample cache (SampleLoader).                                            *)
(*                                                                         *)
(* Time is counted in milliseconds: the source's seconds times 1000, so    *)
(* that 0.281 s, 0.1 s and 60/120 s are the integers 281, 100 and 500.     *)
(* A fraction x / beatDuration is kept as its numerator x.                 *)
(***************************************************************************)
EXTENDS Integers, Sequences, FiniteSets, TLC

VARIABLES
    clock,        \* audioEngine.getCurrentTime(), ms
    ctxState,     \* audioContext.state: "suspended" | "running"
    samplesLoaded,               \* AudioEngine.samplesLoaded
    backingTrackCanPlayThrough,  \* AudioEngine.backingTrackCanPlayThrough
    startTime,    \* TimingEngine.startTime (Null or ms)
    isPlaying,    \* TimingEngine.isPlaying
    pausedAt,     \* TimingEngine.pausedAt (Null or ms)
    ret,          \* outcome of the last TimingEngine call: [op, err, pos]
    advances,     \* number of clock advances taken so far (bounded)
    script,       \* position of the caller in start; pause; resume
    played,       \* ms of clock advance while the caller's run was not paused
    samples,      \* AudioEngine.samples: the MIDI numbers with a decoded buffer
    activeSources,\* AudioEngine.activeSources: inputID -> source node (0: no entry)
    nodes,        \* the source nodes created so far, in creation order
    vret,         \* the last voice handler that ran: [op, inputID, midiNumber, node]
    cache,        \* SampleLoader.cache: url -> buffer (0: no entry)
    loads,        \* the loadSample calls made so far: [url, pc, buffer, fetched, ...]
    samplesLoadingError,              \* AudioEngine.samplesLoadingError is set
    backingTrackCanPlayThroughError,  \* AudioEngine.backingTrackCanPlayThroughError is set
    samplesLoadingPromise, \* the loadMultipleSamples call of preloadSamples (0: none)
    progression,  \* the chord table the progression functions read
    queried,      \* the elapsedBeats argument of the last progression query
    counts,       \* what the counting functions returned for the queried beats
    scan,         \* the forward scan of getChordInfo: [pc, i, steps, currentChord, result]
    samplesMasterGain, \* samplesMasterGain.gain.value, in thousandths
    backingTrackGain,  \* backingTrackGain.gain.value, in thousandths
    volumeCalls,  \* per bus, the volume argument of the last set call (<<>>: none)
    tasks,        \* the promises of preloadSamples() and setUpBackingTrack()
    initResult,   \* how the last initialize() call ended ("none": not called)
    appState,     \* ColorImprovApp.state, which PlaybackControls.state follows
    audioInitialized, \* ColorImprovApp.audioInitialized
    pendingPlays, \* the play() calls waiting at their await of initialize()
    track,        \* the backing track element: [playing, position, endedQueued]
    keyboardEnabled, \* the listeners of KeyboardHandler are registered
    activeKeys,   \* KeyboardHandler.activeKeys
    animationFrameId, \* ColorImprovApp.animationFrameId
    frames,       \* the requestAnimationFrame callbacks that are scheduled
    frameIds,     \* how many requestAnimationFrame calls were made
    preferences,  \* PreferencesManager.preferences: key -> value (Undefined: no such key)
    persistTimerId, \* PreferencesManager.persistTimerId
    timers,       \* the pending timeouts of set(): [id, remaining]
    timerIds,     \* how many setTimeout calls were made
    saves,        \* the objects passed to storageBackend.save(), in order
    pret,         \* the last set() call: [key, value, returned]
    renderer,     \* Renderer: currentChord, nextChord, nextChordCountdown, activeCells
    difficulty,   \* DifficultyControls.currentDifficulty
    noteLog       \* per key, the last two note events dispatched for it

timingVars == <<clock, ctxState, samplesLoaded, backingTrackCanPlayThrough,
                startTime, isPlaying, pausedAt, ret, advances, script, played>>

voiceVars == <<samples, activeSources, nodes, vret>>

loaderVars == <<cache, loads>>

engineVars == <<samplesLoadingError, backingTrackCanPlayThroughError,
                samplesLoadingPromise>>

progVars == <<progression, queried, counts, scan>>

mixVars == <<samplesMasterGain, backingTrackGain, volumeCalls>>

initVars == <<tasks, initResult>>

appVars == <<appState, audioInitialized, pendingPlays, track, keyboardEnabled,
             activeKeys, animationFrameId, frames, frameIds>>

prefVars == <<preferences, persistTimerId, timers, timerIds, saves, pret>>

uiVars == <<renderer, difficulty, noteLog>>

outerVars == <<progVars, mixVars, initVars, appVars, prefVars, uiVars>>

vars == <<timingVars, voiceVars, loaderVars, engineVars, outerVars>>

----------------------------------------------------------------------------
(* Bounds of the model *)

\* how many times the clock may advance in one behaviour
MaxAdvances == 4

\* the amounts (ms) by which the clock advances between two calls:
\* inside the silence, to the end of the silence, a count-in, five measures,
\* eleven loops
Deltas == {150, 181, 2000, 10000, 264000}

\* how many source nodes (voices) are created in one behaviour
MaxNodes == 2

\* the input identities and the pitches the callers use; 61 has no sample
InputIDs == {"KeyZ", "KeyX"}

Pitches == {60, 62, 61}

\* how many loadSample calls are made in one behaviour
MaxLoads == 3

\* the volumes (thousandths) the callers set: below the range, inside it,
\* above it
Volumes == {-500, 250, 1500}

\* the pitch each key plays
KeyPitch == [id \in InputIDs |-> IF id = "KeyZ" THEN 60 ELSE 62]

\* how many play() calls can wait for initialize() at a time
MaxPendingPlays == 2

\* how many requestAnimationFrame calls are made in one behaviour
MaxFrames == 4

\* the length of the backing track, in steps of TrackAdvances
TrackEnd == 2

\* how often the clock advances while the app runs
MaxAppAdvances == 1

\* the largest elapsedBeats the progression functions are asked about
MaxBeats == 100

\* how many measures a forward scan of getChordInfo is followed through
MaxScanSteps == 14

\* the urls the callers load
Urls == {"60.mp3", "62.mp3"}

----------------------------------------------------------------------------
(* Progression data *)

Null == -1

NoChord == "null"

TWELVE_BAR_BLUES ==
    <<"C7", "C7", "C7", "C7", "F7", "F7", "C7", "C7", "G7", "F7", "C7", "G7">>

TOTAL_MEASURES == Len(TWELVE_BAR_BLUES)

BEATS_PER_MEASURE == 4

TOTAL_BEATS == TOTAL_MEASURES * BEATS_PER_MEASURE

DEFAULT_BPM == 120

\* 60 / bpm seconds, in ms
getBeatDuration(bpm) == 60000 \div bpm

\* a 0-indexed beat number
BeatIndexInMeasure(elapsedBeats) == elapsedBeats % BEATS_PER_MEASURE

getBeatNumberInMeasure(elapsedBeats) == (elapsedBeats % BEATS_PER_MEASURE) + 1

\* Math.floor((elapsedBeats / BEATS_PER_MEASURE) % TOTAL_MEASURES): the
\* quotient elapsedBeats / BEATS_PER_MEASURE reduced modulo TOTAL_MEASURES has
\* the numerator elapsedBeats % (BEATS_PER_MEASURE * TOTAL_MEASURES)
getMeasureIndex(elapsedBeats) ==
    (elapsedBeats % (BEATS_PER_MEASURE * TOTAL_MEASURES)) \div BEATS_PER_MEASURE

getMeasureNumberInProgression(elapsedBeats) == getMeasureIndex(elapsedBeats) + 1

\* the while loop of getChordInfo: 0-based index of the first measure at or
\* after i (wrapping) whose label differs from currentChord
RECURSIVE NextDifferentMeasure(_, _)
NextDifferentMeasure(i, currentChord) ==
    IF TWELVE_BAR_BLUES[i + 1] = currentChord
    THEN NextDifferentMeasure((i + 1) % TOTAL_MEASURES, currentChord)
    ELSE i

\* a distance to the next chord computed without the wrap to the next loop
getChordInfoNoWrap(elapsedBeats) ==
    LET currMeasureIdx == getMeasureIndex(elapsedBeats)
        currentChord == TWELVE_BAR_BLUES[currMeasureIdx + 1]
        i == NextDifferentMeasure(currMeasureIdx, currentChord)
    IN  [currentChord |-> currentChord,
         nextChord |-> TWELVE_BAR_BLUES[i + 1],
         beatsUntilNextChord |->
            (i * BEATS_PER_MEASURE) - (elapsedBeats % TOTAL_BEATS)]

getChordInfo(elapsedBeats) ==
    LET currMeasureIdx == getMeasureIndex(elapsedBeats)
        currentChord == TWELVE_BAR_BLUES[currMeasureIdx + 1]
        i == NextDifferentMeasure(currMeasureIdx, currentChord)
    IN  [currentChord |-> currentChord,
         nextChord |-> TWELVE_BAR_BLUES[i + 1],
         beatsUntilNextChord |->
            ((i * BEATS_PER_MEASURE) - (elapsedBeats % TOTAL_BEATS) + TOTAL_BEATS)
                % TOTAL_BEATS]

\* a loop counter that never counts
NoLoopsCompleted(elapsedBeats) == 0

getLoopsCompleted(elapsedBeats) == elapsedBeats \div TOTAL_BEATS

----------------------------------------------------------------------------
(* AUDIO_CONFIG.backingTracks.blues and the TimingEngine constructor *)

VISUAL_LEAD_TIME == 100

bpm == 120

silenceOffset == 281

countInBeats == 4

maxLoops == 11

beatDuration == getBeatDuration(bpm)

REQUIRED_SAMPLES == {60, 62, 63, 64, 65, 66, 67, 69, 70, 71, 72, 74, 75, 76, 77, 79}

\* a readiness test that does not look at the audio context
isReadyWithoutContext == samplesLoaded /\ backingTrackCanPlayThrough

\* AudioEngine.isReady()
isReady ==
    /\ samplesLoaded
    /\ backingTrackCanPlayThrough
    /\ ctxState = "running"

----------------------------------------------------------------------------
(* TimingEngine.getCurrentPosition *)

\* an idle result that names no next chord
PositionWithoutNextChord ==
    [phase |-> "waiting",
     beatNumberInMeasure |-> Null,
     measureNumberInProgression |-> Null,
     currentChord |-> NoChord,
     nextChord |-> NoChord,
     beatsUntilNextChord |-> Null,
     loopsCompleted |-> 0,
     beatProgress |-> Null]

\* the object returned when the guard "not playing" holds
IdlePosition ==
    [phase |-> "waiting",
     beatNumberInMeasure |-> Null,
     measureNumberInProgression |-> Null,
     currentChord |-> NoChord,
     nextChord |-> "C7",
     beatsUntilNextChord |-> Null,
     loopsCompleted |-> 0,
     beatProgress |-> Null]

\* the maximum-loop-count override of the displayed chord
DisplayedChord(loops, currentChord) ==
    IF loops <= maxLoops THEN currentChord ELSE "C7"

\* a ceiling that rounds down
FloorDiv(a, b) == a \div b

\* ceil(a / b) for a > 0
CeilDiv(a, b) == (a + b - 1) \div b

\* phases that are named the other way round
PhaseBeforeProgressionSwapped(inSilence) == IF inSilence THEN "count-in" ELSE "waiting"

\* the phase before the progression starts: inSilence ? 'waiting' : 'count-in'
PhaseBeforeProgression(inSilence) == IF inSilence THEN "waiting" ELSE "count-in"

\* the body of getCurrentPosition after the guard, for clock - startTime = e
PositionAt(e) ==
    LET elapsedTotalTime == e + VISUAL_LEAD_TIME
        elapsedTimeSinceSilence == elapsedTotalTime - silenceOffset
        elapsedTimeFromProgressionStart ==
            elapsedTotalTime - (silenceOffset + countInBeats * beatDuration)
        inSilence == elapsedTotalTime < silenceOffset
        elapsedBeats == elapsedTimeFromProgressionStart \div beatDuration
        info == getChordInfo(elapsedBeats)
    IN  IF elapsedTimeFromProgressionStart < 0
        THEN [phase |-> PhaseBeforeProgression(inSilence),
              beatNumberInMeasure |-> Null,
              measureNumberInProgression |-> Null,
              currentChord |-> NoChord,
              nextChord |-> "C7",
              beatsUntilNextChord |->
                  IF elapsedTotalTime < silenceOffset THEN Null
                  ELSE CeilDiv(-elapsedTimeFromProgressionStart, beatDuration),
              loopsCompleted |-> 0,
              beatProgress |->
                  IF inSilence THEN Null
                  ELSE elapsedTimeSinceSilence % beatDuration]
        ELSE [phase |-> "playing",
              beatNumberInMeasure |-> getBeatNumberInMeasure(elapsedBeats),
              measureNumberInProgression |->
                  getMeasureNumberInProgression(elapsedBeats),
              currentChord |->
                  DisplayedChord(getLoopsCompleted(elapsedBeats), info.currentChord),
              nextChord |-> info.nextChord,
              beatsUntilNextChord |-> info.beatsUntilNextChord,
              loopsCompleted |-> getLoopsCompleted(elapsedBeats),
              beatProgress |-> elapsedTimeFromProgressionStart % beatDuration]

\* a guard that tells idle from started only
NotPlayingGuardIgnoresPause == startTime = Null

\* the guard of getCurrentPosition: the idle object is returned
NotPlayingGuard == ~isPlaying \/ startTime = Null

getCurrentPosition ==
    IF NotPlayingGuard THEN IdlePosition ELSE PositionAt(clock - startTime)

----------------------------------------------------------------------------
(* Initial state: after new AudioEngine(), new TimingEngine(audioEngine) *)

NoRet == [op |-> "none", err |-> "none", pos |-> IdlePosition]

NoVoiceRet ==
    [op |-> "none", inputID |-> "", midiNumber |-> 0, node |-> 0, stopped |-> {}]

\* AUDIO_CONFIG.volumes, in thousandths
SAMPLES_MASTER_GAIN_DEFAULT == 800

BACKING_TRACK_GAIN_DEFAULT == 600

\* no progression query made, no scan started
NoCounts ==
    [beatNumberInMeasure |-> Null, measureIndex |-> Null,
     measureNumberInProgression |-> Null, loopsCompleted |-> Null]

NoInfo == [currentChord |-> NoChord, nextChord |-> NoChord, beatsUntilNextChord |-> Null]

NoScan == [pc |-> "idle", i |-> 0, steps |-> 0, currentChord |-> NoChord, result |-> NoInfo]

----------------------------------------------------------------------------
(* The values and the schema of the preferences *)

\* a JavaScript value: its typeof, and its content as a string or a number
\* (numbers in thousandths; a boolean is 1 or 0)
Str(x) == [t |-> "string", s |-> x, n |-> 0]

Num(x) == [t |-> "number", s |-> "", n |-> x]

Bool(x) == [t |-> "boolean", s |-> "", n |-> IF x THEN 1 ELSE 0]

NaN == [t |-> "number", s |-> "NaN", n |-> 0]

\* undefined; as the value of a key of an object: the object has no such key
Undefined == [t |-> "undefined", s |-> "", n |-> 0]

\* the own keys of the schema
SchemaKeys ==
    {"difficulty", "backingTrackVolume", "samplesVolume", "backingTrackMuted",
     "samplesMuted"}

\* a member the schema object inherits from Object.prototype
InheritedKeys == {"toString"}

\* the keys the callers and the stored data use; "theme" is in no schema
PrefKeys == SchemaKeys \cup InheritedKeys \cup {"theme"}

\* key in this.schema: own and inherited members
KeyInSchema(key) == key \in SchemaKeys \cup InheritedKeys

isNumberInRange(input, min, max) ==
    /\ input.t = "number"
    /\ input.s # "NaN"
    /\ input.n >= min
    /\ input.n <= max

\* this.schema[key](value); the inherited toString ignores its argument and
\* describes the schema object
Validate(key, value) ==
    CASE key = "difficulty" ->
           IF value \in {Str("easy"), Str("medium"), Str("hard")} THEN value ELSE Undefined
      [] key \in {"backingTrackVolume", "samplesVolume"} ->
           IF isNumberInRange(value, 0, 1000) THEN value ELSE Undefined
      [] key \in {"backingTrackMuted", "samplesMuted"} ->
           IF value.t = "boolean" THEN value ELSE Undefined
      [] OTHER -> Str("[object Object]")

\* an object with no keys
NoFields == [k \in PrefKeys |-> Undefined]

\* the values a fresh installation starts with
PREFERENCE_DEFAULTS ==
    [k \in PrefKeys |->
        CASE k = "difficulty" -> Str("easy")
          [] k = "backingTrackVolume" -> Num(BACKING_TRACK_GAIN_DEFAULT)
          [] k = "samplesVolume" -> Num(SAMPLES_MASTER_GAIN_DEFAULT)
          [] k \in {"backingTrackMuted", "samplesMuted"} -> Bool(FALSE)
          [] OTHER -> Undefined]

\* what the storage backend may hold: null, an empty object, objects with
\* valid, invalid and unknown members
StoredNull == [object |-> FALSE, fields |-> NoFields]

StoredObjects ==
    { StoredNull,
      [object |-> TRUE, fields |-> NoFields],
      [object |-> TRUE,
       fields |-> [NoFields EXCEPT !["difficulty"] = Str("hard"),
                                   !["samplesVolume"] = Num(1500)]],
      [object |-> TRUE,
       fields |-> [NoFields EXCEPT !["difficulty"] = Str("expert"),
                                   !["samplesMuted"] = Bool(TRUE),
                                   !["theme"] = Str("dark")]] }

\* the own schema keys of the input whose values pass their validators; an
\* input that is no object, or has none, gives undefined, which load()
\* spreads like an empty object
sanitizeObject(input) ==
    IF ~input.object
    THEN NoFields
    ELSE [k \in PrefKeys |->
            IF k \in SchemaKeys /\ input.fields[k] # Undefined
            THEN Validate(k, input.fields[k])
            ELSE Undefined]

\* { ...PREFERENCE_DEFAULTS, ...sanitizedData }
load(stored) ==
    [k \in PrefKeys |->
        IF sanitizeObject(stored)[k] # Undefined
        THEN sanitizeObject(stored)[k]
        ELSE PREFERENCE_DEFAULTS[k]]

NoPrefRet == [calls |-> 0, key |-> "", value |-> Undefined, returned |-> Undefined]

\* new PreferencesManager(storageBackend) over the stored data
InitPreferences(stored) ==
    /\ preferences = load(stored)
    /\ persistTimerId = Null
    /\ timers = {}
    /\ timerIds = 0
    /\ saves = <<>>
    /\ pret = NoPrefRet

----------------------------------------------------------------------------
(* The initial state *)

InitEngines ==
    /\ clock = 0
    /\ ctxState = "suspended"
    /\ samplesLoaded = FALSE
    /\ backingTrackCanPlayThrough = FALSE
    /\ startTime = Null
    /\ isPlaying = FALSE
    /\ pausedAt = Null
    /\ ret = NoRet
    /\ advances = 0
    /\ script = "none"
    /\ played = 0
    /\ samples = {}
    /\ activeSources = [id \in InputIDs |-> 0]
    /\ nodes = <<>>
    /\ vret = NoVoiceRet
    /\ cache = [u \in Urls |-> 0]
    /\ loads = <<>>
    /\ samplesLoadingError = FALSE
    /\ backingTrackCanPlayThroughError = FALSE
    /\ samplesLoadingPromise = 0
    /\ queried = 0
    /\ counts = NoCounts
    /\ scan = NoScan
    /\ samplesMasterGain = SAMPLES_MASTER_GAIN_DEFAULT
    /\ backingTrackGain = BACKING_TRACK_GAIN_DEFAULT
    /\ volumeCalls = [samples |-> <<>>, backingTrack |-> <<>>]
    /\ tasks = [samples |-> "pending", backingTrack |-> "pending"]
    /\ initResult = "none"
    /\ appState = "STOPPED"
    /\ audioInitialized = FALSE
    /\ pendingPlays = 0
    /\ track = [playing |-> FALSE, position |-> 0, endedQueued |-> FALSE]
    /\ keyboardEnabled = FALSE
    /\ activeKeys = {}
    /\ animationFrameId = Null
    /\ frames = {}
    /\ frameIds = 0
    /\ renderer = [currentChord |-> NoChord, nextChord |-> NoChord,
                   nextChordCountdown |-> Null, activeCells |-> {}]
    /\ difficulty = "easy"
    /\ noteLog = [k \in InputIDs |-> [prev |-> "none", last |-> "none"]]

Init ==
    /\ InitEngines
    /\ progression = TWELVE_BAR_BLUES
    /\ InitPreferences(StoredNull)

----------------------------------------------------------------------------
(* The audio engine as the transport sees it *)

\* the promise of a background task whose try block failed: the catch block
\* stores the error and the async function returns
TaskAfterCatch == "fulfilled"

\* preloadSamples resolved: every required sample decoded
PreloadSamples ==
    /\ ~samplesLoaded
    /\ ~samplesLoadingError
    /\ samplesLoaded' = TRUE
    /\ samples' = REQUIRED_SAMPLES
    /\ UNCHANGED <<clock, ctxState, backingTrackCanPlayThrough, startTime,
                   isPlaying, pausedAt, ret, advances, script, played>>
    /\ UNCHANGED <<activeSources, nodes, vret, loaderVars, engineVars, progVars, mixVars, prefVars, uiVars, initResult,
                   appVars>>
    /\ tasks' = [tasks EXCEPT !.samples = "fulfilled"]

\* the backing track's canplaythrough event
CanPlayThrough ==
    /\ ~backingTrackCanPlayThrough
    /\ ~backingTrackCanPlayThroughError
    /\ backingTrackCanPlayThrough' = TRUE
    /\ UNCHANGED <<clock, ctxState, samplesLoaded, startTime,
                   isPlaying, pausedAt, ret, advances, script, played>>
    /\ UNCHANGED <<voiceVars, loaderVars, engineVars, progVars, mixVars, prefVars, uiVars, initResult,
                   appVars>>
    /\ tasks' = [tasks EXCEPT !.backingTrack = "fulfilled"]

\* preloadSamples rejected: the load of a required sample failed and the
\* catch block stored the error
PreloadFails ==
    /\ ~samplesLoaded
    /\ ~samplesLoadingError
    /\ samplesLoadingError' = TRUE
    /\ UNCHANGED <<backingTrackCanPlayThroughError, samplesLoadingPromise>>
    /\ UNCHANGED <<timingVars, voiceVars, loaderVars, progVars, mixVars, prefVars, uiVars, initResult,
                   appVars>>
    /\ tasks' = [tasks EXCEPT !.samples = TaskAfterCatch]

\* the backing track's error event: the catch block stored the error
BackingTrackError ==
    /\ ~backingTrackCanPlayThrough
    /\ ~backingTrackCanPlayThroughError
    /\ backingTrackCanPlayThroughError' = TRUE
    /\ UNCHANGED <<samplesLoadingError, samplesLoadingPromise>>
    /\ UNCHANGED <<timingVars, voiceVars, loaderVars, progVars, mixVars, prefVars, uiVars, initResult,
                   appVars>>
    /\ tasks' = [tasks EXCEPT !.backingTrack = TaskAfterCatch]

\* the states the context can be in after the awaited audioContext.resume()
ResumeOutcomes == {"running", "suspended"}

\* an initialize() that does not look at the context after the resume attempt
InitializedWithoutContextCheck(state) == "resolved"

\* the end of initialize() once both loads succeeded, the context being in
\* state after the resume attempt
InitializedWith(state) ==
    IF state # "running" THEN "failed to resume AudioContext" ELSE "resolved"

\* initialize(), from the moment its two awaits are through: an await of a
\* rejected promise throws that promise's error
initialize ==
    /\ tasks.samples # "pending"
    /\ tasks.backingTrack # "pending"
    /\ IF "rejected" \in {tasks.samples, tasks.backingTrack}
       THEN /\ initResult' = "load error"
            /\ UNCHANGED ctxState
       ELSE IF ~samplesLoaded
       THEN /\ initResult' = "samples failed to load"
            /\ UNCHANGED ctxState
       ELSE IF ~backingTrackCanPlayThrough
       THEN /\ initResult' = "backing track failed to load"
            /\ UNCHANGED ctxState
       ELSE /\ ctxState' \in (IF ctxState = "suspended" THEN ResumeOutcomes
                                                        ELSE {ctxState})
            /\ initResult' = InitializedWith(ctxState')
    /\ UNCHANGED <<clock, samplesLoaded, backingTrackCanPlayThrough, startTime,
                   isPlaying, pausedAt, ret, advances, script, played>>
    /\ UNCHANGED <<voiceVars, loaderVars, engineVars, progVars, mixVars, prefVars, uiVars, tasks,
                   appVars>>

\* initialize(): resumes the suspended context once both loads succeeded
Initialize ==
    /\ samplesLoaded
    /\ backingTrackCanPlayThrough
    /\ ctxState = "suspended"
    /\ ctxState' = "running"
    /\ initialize

\* the hardware clock advances while the context is running
Advance ==
    /\ ctxState = "running"
    /\ advances < MaxAdvances
    /\ \E d \in Deltas :
        /\ clock' = clock + d
        /\ played' = IF script \in {"started", "resumed"} THEN played + d ELSE played
    /\ advances' = advances + 1
    /\ UNCHANGED <<ctxState, samplesLoaded, backingTrackCanPlayThrough, startTime,
                   isPlaying, pausedAt, ret, script>>
    /\ UNCHANGED <<voiceVars, loaderVars, engineVars, outerVars>>

----------------------------------------------------------------------------
(* TimingEngine operations *)

\* JavaScript's !x for a number-or-null x
Falsy(x) == x = Null \/ x = 0

Idle == startTime = Null /\ pausedAt = Null /\ ~isPlaying

start ==
    /\ IF ~isReady
       THEN /\ ret' = [op |-> "start", err |-> "not ready", pos |-> IdlePosition]
            /\ UNCHANGED <<startTime, isPlaying, script, played>>
       ELSE /\ startTime' = clock
            /\ isPlaying' = TRUE
            /\ ret' = [op |-> "start", err |-> "none", pos |-> IdlePosition]
            /\ script' = IF Idle THEN "started" ELSE "none"
            /\ played' = 0
    /\ UNCHANGED <<clock, ctxState, samplesLoaded, backingTrackCanPlayThrough,
                   pausedAt, advances>>
    /\ UNCHANGED <<voiceVars, loaderVars, engineVars, outerVars>>

\* a pause without the early return
pauseWithoutGuard ==
    /\ pausedAt' = clock
    /\ isPlaying' = FALSE
    /\ ret' = [op |-> "pause", err |-> "none", pos |-> IdlePosition]
    /\ script' = IF script = "started" /\ isPlaying THEN "paused" ELSE "none"
    /\ UNCHANGED <<clock, ctxState, samplesLoaded, backingTrackCanPlayThrough,
                   startTime, advances, played>>
    /\ UNCHANGED <<voiceVars, loaderVars, engineVars, outerVars>>

pause ==
    /\ IF ~isPlaying
       THEN UNCHANGED <<pausedAt, isPlaying>>
       ELSE /\ pausedAt' = clock
            /\ isPlaying' = FALSE
    /\ ret' = [op |-> "pause", err |-> "none", pos |-> IdlePosition]
    /\ script' = IF script = "started" /\ isPlaying THEN "paused" ELSE "none"
    /\ UNCHANGED <<clock, ctxState, samplesLoaded, backingTrackCanPlayThrough,
                   startTime, advances, played>>
    /\ UNCHANGED <<voiceVars, loaderVars, engineVars, outerVars>>

\* a stop that keeps the start time
stopKeepsStartTime ==
    /\ isPlaying' = FALSE
    /\ pausedAt' = Null
    /\ ret' = [op |-> "stop", err |-> "none", pos |-> IdlePosition]
    /\ script' = "none"
    /\ UNCHANGED <<clock, ctxState, samplesLoaded, backingTrackCanPlayThrough,
                   startTime, advances, played>>
    /\ UNCHANGED <<voiceVars, loaderVars, engineVars, outerVars>>

stop ==
    /\ isPlaying' = FALSE
    /\ startTime' = Null
    /\ pausedAt' = Null
    /\ ret' = [op |-> "stop", err |-> "none", pos |-> IdlePosition]
    /\ script' = "none"
    /\ UNCHANGED <<clock, ctxState, samplesLoaded, backingTrackCanPlayThrough,
                   advances, played>>
    /\ UNCHANGED <<voiceVars, loaderVars, engineVars, outerVars>>

\* the first guard of resume: if (!this.startTime)
ResumeNotStarted == Falsy(startTime)

\* the second guard of resume: if (this.pausedAt === null)
ResumeNotPaused == pausedAt = Null

\* startTime after a resume that passed both guards
ResumedStartTime == startTime + (clock - pausedAt)

resume ==
    /\ IF ResumeNotStarted
       THEN /\ ret' = [op |-> "resume", err |-> "not started", pos |-> IdlePosition]
            /\ UNCHANGED <<startTime, pausedAt, isPlaying>>
       ELSE IF ResumeNotPaused
       THEN /\ ret' = [op |-> "resume", err |-> "not paused", pos |-> IdlePosition]
            /\ UNCHANGED <<startTime, pausedAt, isPlaying>>
       ELSE /\ startTime' = ResumedStartTime
            /\ pausedAt' = Null
            /\ isPlaying' = TRUE
            /\ ret' = [op |-> "resume", err |-> "none", pos |-> IdlePosition]
    /\ script' = IF script = "paused" THEN "resumed" ELSE "none"
    /\ UNCHANGED <<clock, ctxState, samplesLoaded, backingTrackCanPlayThrough,
                   advances, played>>
    /\ UNCHANGED <<voiceVars, loaderVars, engineVars, outerVars>>

\* a query that starts an idle transport
queryPositionStarts ==
    /\ ret' = [op |-> "getCurrentPosition", err |-> "none", pos |-> getCurrentPosition]
    /\ startTime' = IF startTime = Null THEN clock ELSE startTime
    /\ UNCHANGED <<clock, ctxState, samplesLoaded, backingTrackCanPlayThrough,
                   isPlaying, pausedAt, advances, script, played>>
    /\ UNCHANGED <<voiceVars, loaderVars, engineVars, outerVars>>

\* a call of getCurrentPosition(), as the render loop makes it
queryPosition ==
    /\ ret' = [op |-> "getCurrentPosition", err |-> "none", pos |-> getCurrentPosition]
    /\ UNCHANGED <<clock, ctxState, samplesLoaded, backingTrackCanPlayThrough,
                   startTime, isPlaying, pausedAt, advances, script, played>>
    /\ UNCHANGED <<voiceVars, loaderVars, engineVars, outerVars>>

NextTiming ==
    \/ PreloadSamples
    \/ PreloadFails
    \/ CanPlayThrough
    \/ BackingTrackError
    \/ Initialize
    \/ Advance
    \/ start
    \/ pause
    \/ stop
    \/ resume
    \/ queryPosition

SpecTiming == Init /\ [][NextTiming]_vars

----------------------------------------------------------------------------
(* The voice engine: AudioEngine.playNote / stopNote / stopAllSamples and   *)
(* the 'ended' event of a source node.                                     *)
(* A node is [inputID, midiNumber, gain, stopScheduled, status]: gain is the *)
(* value of its gain node in thousandths (the value set at creation, or the *)
(* value the ramp scheduled by stopNote ends at); status is                 *)
(* "sounding" from sourceNode.start(), "ended" once playback has finished   *)
(* (the sample ran out, or the stop time scheduled by stopNote was reached) *)
(* and the 'ended' event is queued, "done" once its onended callback ran.   *)

\* this.activeSources.has(inputID)
HasActive(inputID) == activeSources[inputID] # 0

\* gainNode.gain.value = 1.0, in thousandths
FULL_GAIN == 1000

\* the value the fade of stopNote ramps to: 0.001, in thousandths
FADE_TARGET == 1

\* sourceNode.stop(now + fade) and the gain ramp of stopNote on node n
ScheduleStop(ns, n) == [ns EXCEPT ![n].stopScheduled = TRUE, ![n].gain = FADE_TARGET]

\* a stopNote that leaves the entry to the onended callback
RegistryKeptDuringFade(inputID) == activeSources

\* the registry after stopNote found an entry: this.activeSources.delete(inputID)
RegistryAfterStop(inputID) == [activeSources EXCEPT ![inputID] = 0]

\* a playNote without the re-trigger branch
NodesWithoutRetriggerStop(inputID) == nodes

\* the nodes after the re-trigger branch of playNote:
\* if (this.activeSources.has(inputID)) this.stopNote(inputID, midiNumber)
NodesAfterRetrigger(inputID) ==
    IF HasActive(inputID) THEN ScheduleStop(nodes, activeSources[inputID]) ELSE nodes

\* a playNote that does not look for the buffer
CanPlayWithoutBuffer(midiNumber) == ctxState = "running"

\* the two checks playNote makes before it touches anything: the context is
\* running and this.samples has a buffer for the pitch
CanPlay(midiNumber) == ctxState = "running" /\ midiNumber \in samples

playNote(inputID, midiNumber) ==
    /\ IF ~CanPlay(midiNumber)
       THEN /\ vret' = [op |-> "playNote", inputID |-> inputID,
                        midiNumber |-> midiNumber, node |-> 0, stopped |-> {}]
            /\ UNCHANGED <<activeSources, nodes>>
       ELSE /\ Len(nodes) < MaxNodes
            /\ nodes' = Append(NodesAfterRetrigger(inputID),
                               [inputID |-> inputID, midiNumber |-> midiNumber,
                                gain |-> FULL_GAIN,
                                stopScheduled |-> FALSE, status |-> "sounding"])
            /\ activeSources' = [activeSources EXCEPT ![inputID] = Len(nodes) + 1]
            /\ vret' = [op |-> "playNote", inputID |-> inputID,
                        midiNumber |-> midiNumber, node |-> Len(nodes) + 1,
                        stopped |-> {}]
    /\ UNCHANGED <<samples, timingVars, loaderVars, engineVars, outerVars>>

\* a stopNote that returns when the pitch is not the registered one
StopRequiresSamePitch(inputID, midiNumber) ==
    /\ HasActive(inputID)
    /\ nodes[activeSources[inputID]].midiNumber = midiNumber

\* stopNote goes on to stop the voice: there is an entry under inputID; a
\* pitch other than the registered one is warned about and stopped all the same
StopProceeds(inputID, midiNumber) == HasActive(inputID)

stopNote(inputID, midiNumber) ==
    /\ IF ~StopProceeds(inputID, midiNumber)
       THEN UNCHANGED <<activeSources, nodes>>
       ELSE /\ nodes' = ScheduleStop(nodes, activeSources[inputID])
            /\ activeSources' = RegistryAfterStop(inputID)
    /\ vret' = [op |-> "stopNote", inputID |-> inputID,
                midiNumber |-> midiNumber, node |-> activeSources[inputID],
                stopped |-> {}]
    /\ UNCHANGED <<samples, timingVars, loaderVars, engineVars, outerVars>>

\* the place of a deleted entry in the entry list of the Map
Deleted == ""

\* the entry list of this.activeSources, in insertion order: every set() of
\* the code adds a key that is not in the Map, so the keys are in the order
\* of their nodes
RECURSIVE EntriesFrom(_)
EntriesFrom(n) ==
    IF n > Len(nodes) THEN <<>>
    ELSE IF activeSources[nodes[n].inputID] = n
         THEN <<nodes[n].inputID>> \o EntriesFrom(n + 1)
         ELSE EntriesFrom(n + 1)

\* a delete that closes the gap, as removing from an array does
DeleteBySplice(entries, k) ==
    [j \in 1..(Len(entries) - 1) |-> IF j < k THEN entries[j] ELSE entries[j + 1]]

\* Map.prototype.delete as the iterator sees it: the entry is emptied and the
\* list keeps its length
DeleteEntry(entries, k) == [entries EXCEPT ![k] = Deleted]

\* the loop of stopAllSamples from entry k on: stopNote(inputID, midiNumber)
\* for each entry the iterator yields, the Map changing under it
RECURSIVE StopEach(_, _, _)
StopEach(entries, k, st) ==
    IF k > Len(entries) THEN st
    ELSE IF entries[k] = Deleted THEN StopEach(entries, k + 1, st)
    ELSE LET inputID == entries[k]
             n == st.activeSources[inputID]
         IN  StopEach(DeleteEntry(entries, k), k + 1,
                      [activeSources |-> [st.activeSources EXCEPT ![inputID] = 0],
                       nodes |-> ScheduleStop(st.nodes, n),
                       stopped |-> st.stopped \cup {n}])

stopAllSamples ==
    LET st == StopEach(EntriesFrom(1), 1,
                       [activeSources |-> activeSources, nodes |-> nodes,
                        stopped |-> {}])
    IN  /\ nodes' = st.nodes
        /\ activeSources' = st.activeSources
        /\ vret' = [op |-> "stopAllSamples", inputID |-> "", midiNumber |-> 0,
                    node |-> 0, stopped |-> st.stopped]
    /\ UNCHANGED <<samples, timingVars, loaderVars, engineVars, outerVars>>

\* playback of node n finishes: the sample ran out, or the scheduled stop
\* time (the end of the fade) was reached; the 'ended' event is queued
SourceEnds(n) ==
    /\ n \in DOMAIN nodes
    /\ nodes[n].status = "sounding"
    /\ nodes' = [nodes EXCEPT ![n].status = "ended"]
    /\ UNCHANGED <<activeSources, vret, samples, timingVars, loaderVars, engineVars, outerVars>>

\* an onended callback that deletes whatever is registered under its identity
EndedWithoutInstanceCheck(n) == HasActive(nodes[n].inputID)

\* the guard of the onended callback of node n:
\* current && current.sourceNode === sourceNode
EndedIsCurrent(n) == activeSources[nodes[n].inputID] = n

\* sourceNode.onended of node n
onended(n) ==
    /\ n \in DOMAIN nodes
    /\ nodes[n].status = "ended"
    /\ nodes' = [nodes EXCEPT ![n].status = "done"]
    /\ activeSources' = IF EndedIsCurrent(n)
                        THEN [activeSources EXCEPT ![nodes[n].inputID] = 0]
                        ELSE activeSources
    /\ vret' = [op |-> "onended", inputID |-> nodes[n].inputID,
                midiNumber |-> nodes[n].midiNumber, node |-> n, stopped |-> {}]
    /\ UNCHANGED <<samples, timingVars, loaderVars, engineVars, outerVars>>

NextVoice ==
    \/ PreloadSamples
    \/ CanPlayThrough
    \/ Initialize
    \/ \E id \in InputIDs, m \in Pitches : playNote(id, m)
    \/ \E id \in InputIDs, m \in Pitches : stopNote(id, m)
    \/ stopAllSamples
    \/ \E n \in 1..MaxNodes : SourceEnds(n)
    \/ \E n \in 1..MaxNodes : onended(n)

SpecVoice == Init /\ [][NextVoice]_vars

----------------------------------------------------------------------------
(* The sample cache: SampleLoader.loadSample / loadMultipleSamples.         *)
(* A call of loadSample is [url, pc, buffer, fetched, batch, error]: pc is  *)
(* "fetching" while fetch(url) is awaited, "decoding" while                 *)
(* decodeAudioData is awaited, "resolved" or "rejected" once the promise    *)
(* settled; buffer is the AudioBuffer returned (0: none), a fresh object    *)
(* for each decode; fetched tells whether the call issued a fetch; batch is *)
(* the loadMultipleSamples call it belongs to (0: a single call); error is  *)
(* what a rejected call threw ("network", "not ok" or "decode").            *)

\* a loadSample that never finds its cache entry
CacheNeverHit(url) == FALSE

\* this.cache.has(url)
CacheHit(url) == cache[url] # 0

\* the buffers decoded so far
Buffers == {loads[i].buffer : i \in DOMAIN loads} \ {0}

\* a fresh AudioBuffer object
NewBuffer == Cardinality(Buffers) + 1

\* the synchronous part of one loadSample(url) call, up to its first await
LoadCall(url, batch) ==
    IF CacheHit(url)
    THEN [url |-> url, pc |-> "resolved", buffer |-> cache[url],
          fetched |-> FALSE, batch |-> batch, error |-> "none"]
    ELSE [url |-> url, pc |-> "fetching", buffer |-> 0,
          fetched |-> TRUE, batch |-> batch, error |-> "none"]

loadSample(url) ==
    /\ Len(loads) < MaxLoads
    /\ loads' = Append(loads, LoadCall(url, 0))
    /\ UNCHANGED <<cache, timingVars, voiceVars, engineVars, outerVars>>

\* urls.map(url => this.loadSample(url)): the calls start in one turn
MappedLoads(urls) ==
    loads \o [k \in DOMAIN urls |-> LoadCall(urls[k], Len(loads) + 1)]

loadMultipleSamples(urls) ==
    /\ Len(loads) + Len(urls) <= MaxLoads
    /\ loads' = MappedLoads(urls)
    /\ UNCHANGED <<cache, timingVars, voiceVars, engineVars, outerVars>>

\* fetch resolved with an ok response, its body was read, decoding starts
FetchOk(i) ==
    /\ i \in DOMAIN loads
    /\ loads[i].pc = "fetching"
    /\ loads' = [loads EXCEPT ![i].pc = "decoding"]
    /\ UNCHANGED <<cache, timingVars, voiceVars, engineVars, outerVars>>

\* a catch block that logs the error and returns nothing
Swallowed(i, error) == [loads EXCEPT ![i].pc = "resolved"]

\* the catch block of loadSample: console.error(...); throw error
Rethrown(i, error) == [loads EXCEPT ![i].pc = "rejected", ![i].error = error]

\* what makes a fetch fail: fetch() rejected, or the response was not ok
FetchErrors == {"network", "not ok"}

\* fetch rejected, or the response was not ok: the error is re-thrown
FetchFails(i) ==
    /\ i \in DOMAIN loads
    /\ loads[i].pc = "fetching"
    /\ \E error \in FetchErrors : loads' = Rethrown(i, error)
    /\ UNCHANGED <<cache, timingVars, voiceVars, engineVars, outerVars>>

\* decodeAudioData resolved: this.cache.set(url, audioBuffer); return it
DecodeOk(i) ==
    /\ i \in DOMAIN loads
    /\ loads[i].pc = "decoding"
    /\ loads' = [loads EXCEPT ![i].pc = "resolved", ![i].buffer = NewBuffer]
    /\ cache' = [cache EXCEPT ![loads[i].url] = NewBuffer]
    /\ UNCHANGED <<timingVars, voiceVars, engineVars, outerVars>>

\* decodeAudioData rejected: the error is re-thrown
DecodeFails(i) ==
    /\ i \in DOMAIN loads
    /\ loads[i].pc = "decoding"
    /\ loads' = Rethrown(i, "decode")
    /\ UNCHANGED <<cache, timingVars, voiceVars, engineVars, outerVars>>

\* the url lists given to loadMultipleSamples
UrlLists == {<<u1, u2>> : u1 \in Urls, u2 \in Urls}

LoadSettles ==
    \E i \in 1..MaxLoads :
        \/ FetchOk(i)
        \/ FetchFails(i)
        \/ DecodeOk(i)
        \/ DecodeFails(i)

NextLoader ==
    \/ \E u \in Urls : loadSample(u)
    \/ \E us \in UrlLists : loadMultipleSamples(us)
    \/ LoadSettles

SpecLoader == Init /\ [][NextLoader]_vars

\* a load of url is in flight
InFlight(url) ==
    \E i \in DOMAIN loads :
        loads[i].url = url /\ loads[i].pc \in {"fetching", "decoding"}

\* callers that load a key only after the earlier loads of it have settled,
\* as the cache tests do (await loadSample(url), then loadSample(url) again)
loadSampleAwaited(url) ==
    /\ ~InFlight(url)
    /\ loadSample(url)

loadMultipleSamplesAwaited(urls) ==
    /\ urls[1] # urls[2]
    /\ ~InFlight(urls[1])
    /\ ~InFlight(urls[2])
    /\ loadMultipleSamples(urls)

NextLoaderSequential ==
    \/ \E u \in Urls : loadSampleAwaited(u)
    \/ \E us \in UrlLists : loadMultipleSamplesAwaited(us)
    \/ LoadSettles

SpecLoaderSequential == Init /\ [][NextLoaderSequential]_vars

----------------------------------------------------------------------------
(* AudioEngine.preloadSamples over the sample cache *)

\* a combinator that waits for every member and never rejects
PromiseAllSettled(b) ==
    IF \A i \in DOMAIN loads :
            loads[i].batch = b => loads[i].pc \in {"resolved", "rejected"}
    THEN "resolved"
    ELSE "pending"

\* Promise.all(loadPromises) of the loadMultipleSamples call b: rejected as
\* soon as one member is rejected, resolved once every member is resolved
PromiseAll(b) ==
    IF \E i \in DOMAIN loads : loads[i].batch = b /\ loads[i].pc = "rejected"
    THEN "rejected"
    ELSE IF \A i \in DOMAIN loads : loads[i].batch = b => loads[i].pc = "resolved"
    THEN "resolved"
    ELSE "pending"

\* the urls loadTrumpetSamples makes of the sample list; the loads of the
\* first two samples are followed, those of the other samples are taken as
\* resolved
SampleUrls == <<"60.mp3", "62.mp3">>

\* the constructor's call of preloadSamples, up to its await
preloadSamples ==
    /\ samplesLoadingPromise = 0
    /\ Len(loads) + Len(SampleUrls) <= MaxLoads
    /\ loads' = MappedLoads(SampleUrls)
    /\ samplesLoadingPromise' = Len(loads) + 1
    /\ UNCHANGED <<cache, samplesLoadingError, backingTrackCanPlayThroughError>>
    /\ UNCHANGED <<timingVars, voiceVars, outerVars>>

\* the await of preloadSamples resolved: this.samples = sampleMap, whose keys
\* are all the MIDI numbers of the sample list; this.samplesLoaded = true
PreloadResolved ==
    /\ samplesLoadingPromise # 0
    /\ ~samplesLoaded
    /\ ~samplesLoadingError
    /\ PromiseAll(samplesLoadingPromise) = "resolved"
    /\ samples' = REQUIRED_SAMPLES
    /\ samplesLoaded' = TRUE
    /\ UNCHANGED <<clock, ctxState, backingTrackCanPlayThrough, startTime,
                   isPlaying, pausedAt, ret, advances, script, played>>
    /\ UNCHANGED <<activeSources, nodes, vret, loaderVars, engineVars, progVars, mixVars, prefVars, uiVars, initResult,
                   appVars>>
    /\ tasks' = [tasks EXCEPT !.samples = "fulfilled"]

\* the await of preloadSamples rejected: this.samplesLoadingError = error
PreloadRejected ==
    /\ samplesLoadingPromise # 0
    /\ ~samplesLoaded
    /\ ~samplesLoadingError
    /\ PromiseAll(samplesLoadingPromise) = "rejected"
    /\ samplesLoadingError' = TRUE
    /\ UNCHANGED <<backingTrackCanPlayThroughError, samplesLoadingPromise>>
    /\ UNCHANGED <<timingVars, voiceVars, loaderVars, progVars, mixVars, prefVars, uiVars, initResult,
                   appVars>>
    /\ tasks' = [tasks EXCEPT !.samples = TaskAfterCatch]

NextPreload ==
    \/ preloadSamples
    \/ \E u \in Urls : loadSample(u)
    \/ LoadSettles
    \/ PreloadResolved
    \/ PreloadRejected
    \/ CanPlayThrough
    \/ BackingTrackError
    \/ Initialize

SpecPreload == Init /\ [][NextPreload]_vars

----------------------------------------------------------------------------
(* The application: ColorImprovApp with PlaybackControls, KeyboardHandler,  *)
(* the backing track element and the render loop.  A handler runs to its    *)
(* end in one step; play() is in two steps, split at its await.  ret,       *)
(* script, played and vret record calls made on the engines directly and    *)
(* are left alone here.                                                     *)

\* the difficulty levels of the select element
Difficulties == {"easy", "medium", "hard"}

GRID_COLS == 9

\* keyToGridCoordinates as the cell number row * GRID.COLS + col: both keys
\* are in the C Mixolydian row, scale degrees 1 and 2
KeyCell == [KeyZ |-> 5 * GRID_COLS + 1, KeyX |-> 5 * GRID_COLS + 2]

\* the countdown loop() hands to the renderer on 'easy'
Countdown(position) ==
    IF position.beatsUntilNextChord >= 1 /\ position.beatsUntilNextChord <= 4
    THEN position.beatsUntilNextChord
    ELSE Null

\* the renderer after the body of loop() for this position
Rendered(position) ==
    CASE difficulty = "hard" ->
           [renderer EXCEPT !.currentChord = NoChord, !.nextChordCountdown = Null]
      [] difficulty = "medium" ->
           [renderer EXCEPT !.currentChord = position.currentChord,
                            !.nextChordCountdown = Null]
      [] OTHER ->
           [renderer EXCEPT !.currentChord = position.currentChord,
                            !.nextChord = position.nextChord,
                            !.nextChordCountdown = Countdown(position)]

\* listeners that stay registered after disable()
ListenersNeverRemoved == TRUE

\* the keyboard listeners are registered: enable() adds them, disable()
\* removes them
ListenersRegistered == keyboardEnabled

\* dispatchNoteEvent(eventName, keyCode, midiNumber), as the log sees it
Dispatched(code, eventName) ==
    [noteLog EXCEPT ![code] = [prev |-> @.last, last |-> eventName]]

\* a release that notifies for every mapped key
LogAfterReleaseOfEveryKey ==
    [k \in InputIDs |-> [prev |-> noteLog[k].last, last |-> "noteend"]]

\* the log after releaseAllKeys(): a 'noteend' for every active key
LogAfterRelease ==
    [k \in InputIDs |->
        IF k \in activeKeys THEN [prev |-> noteLog[k].last, last |-> "noteend"]
        ELSE noteLog[k]]

\* clearActiveCells()
ClearedCells == [renderer EXCEPT !.activeCells = {}]

\* an initialize() has settled and the play() calls that awaited it have not
\* continued yet: they do before any other event is handled
Settling == pendingPlays > 0 /\ initResult \notin {"none", "pending"}

\* the element after playBackingTrack(): backingTrackElement.play(), unless
\* the context is not running
TrackAfterPlay ==
    IF ctxState # "running" THEN track
    ELSE [track EXCEPT !.playing = TRUE,
                       !.position = IF track.position = TrackEnd THEN 0
                                    ELSE track.position]

\* the voices after stopAllSamples()
VoicesAfterStopAll ==
    StopEach(EntriesFrom(1), 1,
             [activeSources |-> activeSources, nodes |-> nodes, stopped |-> {}])

\* the voices after the stopNote calls of releaseAllKeys()
RECURSIVE ReleaseEach(_, _)
ReleaseEach(keys, st) ==
    IF keys = {} THEN st
    ELSE LET code == CHOOSE c \in keys : TRUE
         IN  ReleaseEach(keys \ {code},
                 IF st.activeSources[code] = 0 THEN st
                 ELSE [activeSources |-> [st.activeSources EXCEPT ![code] = 0],
                       nodes |-> ScheduleStop(st.nodes, st.activeSources[code])])

\* the voices after stopAllSamples() and then keyboardHandler.disable()
VoicesAfterDisable ==
    ReleaseEach(activeKeys, [activeSources |-> VoicesAfterStopAll.activeSources,
                             nodes |-> VoicesAfterStopAll.nodes])

\* n calls of startRenderLoop() in state PLAYING: each runs loop() once, which
\* ends with this.animationFrameId = requestAnimationFrame(loop)
StartedLoops(n) ==
    [frames |-> frames \cup ((frameIds + 1)..(frameIds + n)),
     animationFrameId |-> frameIds + n,
     frameIds |-> frameIds + n]

\* stopRenderLoop(): cancels the frame animationFrameId names
StoppedLoop ==
    IF Falsy(animationFrameId)
    THEN [frames |-> frames, animationFrameId |-> animationFrameId]
    ELSE [frames |-> frames \ {animationFrameId}, animationFrameId |-> Null]

\* the body of play() after initialize(), run n times back to back
PlayBody(n) ==
    /\ frameIds + n <= MaxFrames
    /\ track' = TrackAfterPlay
    /\ IF ~isReady
       THEN \* timingEngine.start() throws, the catch block resets the state
            /\ appState' = "STOPPED"
            /\ UNCHANGED <<startTime, isPlaying, keyboardEnabled,
                           animationFrameId, frames, frameIds, renderer>>
       ELSE /\ appState' = "PLAYING"
            /\ startTime' = clock
            /\ isPlaying' = TRUE
            /\ keyboardEnabled' = TRUE
            /\ renderer' = Rendered(PositionAt(clock - clock))
            /\ frames' = StartedLoops(n).frames
            /\ animationFrameId' = StartedLoops(n).animationFrameId
            /\ frameIds' = StartedLoops(n).frameIds
    /\ UNCHANGED <<clock, ctxState, samplesLoaded, backingTrackCanPlayThrough,
                   pausedAt, ret, advances, script, played>>
    /\ UNCHANGED <<voiceVars, loaderVars, engineVars, progVars, mixVars, prefVars, difficulty, noteLog, tasks,
                   activeKeys>>

\* the play button or the space bar while the controls show 'stopped':
\* play(), up to its await on the first play
playClick ==
    /\ ~Settling
    /\ appState = "STOPPED"
    /\ IF ~audioInitialized
       THEN /\ pendingPlays < MaxPendingPlays
            /\ pendingPlays' = pendingPlays + 1
            /\ initResult' = "pending"
            /\ UNCHANGED <<appState, audioInitialized, track, keyboardEnabled,
                           activeKeys, animationFrameId, frames, frameIds>>
            /\ UNCHANGED <<timingVars, voiceVars, loaderVars, engineVars,
                           progVars, mixVars, prefVars, uiVars, tasks>>
       ELSE /\ PlayBody(1)
            /\ UNCHANGED <<audioInitialized, pendingPlays, initResult>>

\* the initialize() call the waiting play() calls await
playInitializes ==
    /\ pendingPlays > 0
    /\ initResult = "pending"
    /\ initialize

\* the waiting play() calls go on after their await
playsContinue ==
    /\ Settling
    /\ pendingPlays' = 0
    /\ UNCHANGED initResult
    /\ IF initResult = "resolved"
       THEN /\ audioInitialized' = TRUE
            /\ PlayBody(pendingPlays)
       ELSE /\ appState' = "STOPPED"
            /\ UNCHANGED <<audioInitialized, track, keyboardEnabled, activeKeys,
                           animationFrameId, frames, frameIds>>
            /\ UNCHANGED <<timingVars, voiceVars, loaderVars, engineVars,
                           progVars, mixVars, prefVars, uiVars, tasks>>

\* the pause button or the space bar while the controls show 'playing'
pauseClick ==
    /\ ~Settling
    /\ appState = "PLAYING"
    /\ appState' = "PAUSED"
    /\ track' = [track EXCEPT !.playing = FALSE]
    /\ activeSources' = VoicesAfterDisable.activeSources
    /\ nodes' = VoicesAfterDisable.nodes
    /\ IF ~isPlaying
       THEN UNCHANGED <<pausedAt, isPlaying>>
       ELSE /\ pausedAt' = clock
            /\ isPlaying' = FALSE
    /\ keyboardEnabled' = FALSE
    /\ activeKeys' = {}
    /\ frames' = StoppedLoop.frames
    /\ animationFrameId' = StoppedLoop.animationFrameId
    /\ renderer' = ClearedCells
    /\ noteLog' = LogAfterRelease
    /\ UNCHANGED <<clock, ctxState, samplesLoaded, backingTrackCanPlayThrough,
                   startTime, ret, advances, script, played>>
    /\ UNCHANGED <<samples, vret, loaderVars, engineVars, progVars, mixVars, prefVars, difficulty,
                   initVars, audioInitialized, pendingPlays, frameIds>>

\* the play button or the space bar while the controls show 'paused': when
\* timingEngine.resume() throws, the rest of resume() is not run
resumeClick ==
    /\ ~Settling
    /\ appState = "PAUSED"
    /\ appState' = "PLAYING"
    /\ track' = TrackAfterPlay
    /\ IF ResumeNotStarted \/ ResumeNotPaused
       THEN UNCHANGED <<startTime, pausedAt, isPlaying, keyboardEnabled,
                        animationFrameId, frames, frameIds, renderer>>
       ELSE /\ frameIds < MaxFrames
            /\ renderer' = Rendered(PositionAt(clock - ResumedStartTime))
            /\ startTime' = ResumedStartTime
            /\ pausedAt' = Null
            /\ isPlaying' = TRUE
            /\ keyboardEnabled' = TRUE
            /\ frames' = StartedLoops(1).frames
            /\ animationFrameId' = StartedLoops(1).animationFrameId
            /\ frameIds' = StartedLoops(1).frameIds
    /\ UNCHANGED <<clock, ctxState, samplesLoaded, backingTrackCanPlayThrough,
                   ret, advances, script, played>>
    /\ UNCHANGED <<voiceVars, loaderVars, engineVars, progVars, mixVars, prefVars, difficulty, noteLog,
                   initVars, audioInitialized, pendingPlays, activeKeys>>

\* the body of ColorImprovApp.stop(): stopAllSound(), timingEngine.stop(),
\* keyboardHandler.disable(), stopRenderLoop()
AppStop ==
    /\ appState' = "STOPPED"
    /\ activeSources' = VoicesAfterDisable.activeSources
    /\ nodes' = VoicesAfterDisable.nodes
    /\ isPlaying' = FALSE
    /\ startTime' = Null
    /\ pausedAt' = Null
    /\ keyboardEnabled' = FALSE
    /\ activeKeys' = {}
    /\ frames' = StoppedLoop.frames
    /\ animationFrameId' = StoppedLoop.animationFrameId
    /\ renderer' = [ClearedCells EXCEPT !.currentChord = NoChord]
    /\ noteLog' = LogAfterRelease
    /\ UNCHANGED <<clock, ctxState, samplesLoaded, backingTrackCanPlayThrough,
                   ret, advances, script, played>>
    /\ UNCHANGED <<samples, vret, loaderVars, engineVars, progVars, mixVars, prefVars, difficulty,
                   initVars, audioInitialized, pendingPlays, frameIds>>

\* the stop button or Shift+Escape while the controls do not show 'stopped'
stopClick ==
    /\ ~Settling
    /\ appState # "STOPPED"
    /\ track' = [track EXCEPT !.playing = FALSE, !.position = 0]
    /\ AppStop

\* the backing track plays on; at its end the element stops and queues its
\* 'ended' event
TrackAdvances ==
    /\ track.playing
    /\ track.position < TrackEnd
    /\ track' = IF track.position + 1 = TrackEnd
                THEN [playing |-> FALSE, position |-> TrackEnd, endedQueued |-> TRUE]
                ELSE [track EXCEPT !.position = track.position + 1]
    /\ UNCHANGED <<timingVars, voiceVars, loaderVars, engineVars, progVars,
                   mixVars, prefVars, uiVars, initVars>>
    /\ UNCHANGED <<appState, audioInitialized, pendingPlays, keyboardEnabled,
                   activeKeys, animationFrameId, frames, frameIds>>

\* the 'ended' listener of the backing track: this.onEnded(), which is
\* () => this.stop()
ended ==
    /\ ~Settling
    /\ track.endedQueued
    /\ track' = [playing |-> FALSE, position |-> 0, endedQueued |-> FALSE]
    /\ AppStop

\* KeyboardHandler.handleKeyDown for a mapped key that is not active
keyDown(code) ==
    /\ ~Settling
    /\ ListenersRegistered
    /\ code \notin activeKeys
    /\ IF ~CanPlay(KeyPitch[code])
       THEN UNCHANGED <<activeSources, nodes>>
       ELSE /\ Len(nodes) < MaxNodes
            /\ nodes' = Append(NodesAfterRetrigger(code),
                               [inputID |-> code, midiNumber |-> KeyPitch[code],
                                gain |-> FULL_GAIN,
                                stopScheduled |-> FALSE, status |-> "sounding"])
            /\ activeSources' = [activeSources EXCEPT ![code] = Len(nodes) + 1]
    /\ activeKeys' = activeKeys \cup {code}
    /\ renderer' = [renderer EXCEPT !.activeCells = @ \cup {KeyCell[code]}]
    /\ noteLog' = Dispatched(code, "notestart")
    /\ UNCHANGED <<samples, vret, timingVars, loaderVars, engineVars, progVars,
                   mixVars, prefVars, difficulty, initVars>>
    /\ UNCHANGED <<appState, audioInitialized, pendingPlays, track,
                   keyboardEnabled, animationFrameId, frames, frameIds>>

\* KeyboardHandler.handleKeyUp for an active key
keyUp(code) ==
    /\ ~Settling
    /\ ListenersRegistered
    /\ code \in activeKeys
    /\ IF ~StopProceeds(code, KeyPitch[code])
       THEN UNCHANGED <<activeSources, nodes>>
       ELSE /\ nodes' = ScheduleStop(nodes, activeSources[code])
            /\ activeSources' = RegistryAfterStop(code)
    /\ activeKeys' = activeKeys \ {code}
    /\ renderer' = [renderer EXCEPT !.activeCells = @ \ {KeyCell[code]}]
    /\ noteLog' = Dispatched(code, "noteend")
    /\ UNCHANGED <<samples, vret, timingVars, loaderVars, engineVars, progVars,
                   mixVars, prefVars, difficulty, initVars>>
    /\ UNCHANGED <<appState, audioInitialized, pendingPlays, track,
                   keyboardEnabled, animationFrameId, frames, frameIds>>

\* the keyboard events: each mapped key, an auto-repeat, a key pressed with
\* a modifier, a key with no mapping
KeyEvents ==
    {[code |-> c, repeat |-> FALSE, modifier |-> FALSE] : c \in InputIDs}
      \cup {[code |-> "KeyZ", repeat |-> TRUE, modifier |-> FALSE],
            [code |-> "KeyX", repeat |-> FALSE, modifier |-> TRUE],
            [code |-> "KeyP", repeat |-> FALSE, modifier |-> FALSE]}

\* KeyboardHandler.handleKeyDown while its listeners are registered
handleKeyDown(event) ==
    /\ ~Settling
    /\ ListenersRegistered
    /\ IF \/ event.repeat
          \/ event.modifier
          \/ event.code \notin DOMAIN KeyPitch
          \/ event.code \in activeKeys
       THEN UNCHANGED vars
       ELSE keyDown(event.code)

\* KeyboardHandler.handleKeyUp while its listeners are registered
handleKeyUp(event) ==
    /\ ~Settling
    /\ ListenersRegistered
    /\ IF event.code \notin DOMAIN KeyPitch \/ event.code \notin activeKeys
       THEN UNCHANGED vars
       ELSE keyUp(event.code)

\* handleBlur, and handleVisibilityChange when the document is hidden:
\* releaseAllKeys()
handleBlur ==
    /\ ~Settling
    /\ ListenersRegistered
    /\ activeSources' =
          ReleaseEach(activeKeys, [activeSources |-> activeSources, nodes |-> nodes]).activeSources
    /\ nodes' =
          ReleaseEach(activeKeys, [activeSources |-> activeSources, nodes |-> nodes]).nodes
    /\ activeKeys' = {}
    /\ noteLog' = LogAfterRelease
    /\ renderer' = [renderer EXCEPT !.activeCells = @ \ {KeyCell[k] : k \in activeKeys}]
    /\ UNCHANGED <<samples, vret, timingVars, loaderVars, engineVars, progVars,
                   mixVars, prefVars, difficulty, initVars>>
    /\ UNCHANGED <<appState, audioInitialized, pendingPlays, track,
                   keyboardEnabled, animationFrameId, frames, frameIds>>

\* the scheduled callback id runs: loop(), which asks for another frame only
\* if (this.state === 'PLAYING')
FrameCallback(id) ==
    /\ ~Settling
    /\ id \in frames
    /\ renderer' = Rendered(getCurrentPosition)
    /\ IF appState = "PLAYING"
       THEN /\ frameIds < MaxFrames
            /\ frames' = (frames \ {id}) \cup {frameIds + 1}
            /\ animationFrameId' = frameIds + 1
            /\ frameIds' = frameIds + 1
       ELSE /\ frames' = frames \ {id}
            /\ UNCHANGED <<animationFrameId, frameIds>>
    /\ UNCHANGED <<timingVars, voiceVars, loaderVars, engineVars, progVars,
                   mixVars, prefVars, difficulty, noteLog, initVars>>
    /\ UNCHANGED <<appState, audioInitialized, pendingPlays, track,
                   keyboardEnabled, activeKeys>>

\* the 'change' listener of the difficulty select
setDifficulty(d) ==
    /\ ~Settling
    /\ d # difficulty
    /\ difficulty' = d
    /\ UNCHANGED <<timingVars, voiceVars, loaderVars, engineVars, progVars,
                   mixVars, prefVars, initVars, appVars, renderer, noteLog>>

\* the clock advances while the app runs
AppAdvance ==
    /\ advances < MaxAppAdvances
    /\ Advance

NextApp ==
    \/ PreloadSamples
    \/ CanPlayThrough
    \/ playClick
    \/ playInitializes
    \/ playsContinue
    \/ pauseClick
    \/ resumeClick
    \/ stopClick
    \/ TrackAdvances
    \/ ended
    \/ \E code \in InputIDs : keyDown(code)
    \/ \E code \in InputIDs : keyUp(code)
    \/ \E id \in 1..MaxFrames : FrameCallback(id)
    \/ AppAdvance
    \/ \E n \in 1..MaxNodes : SourceEnds(n)
    \/ \E n \in 1..MaxNodes : onended(n)

SpecApp == Init /\ [][NextApp]_vars

\* the clock advances by a count-in
KeysAdvance ==
    /\ AppAdvance
    /\ clock' = clock + countInBeats * beatDuration

\* the application with every event of its keyboard, without its frames
NextKeys ==
    \/ PreloadSamples
    \/ CanPlayThrough
    \/ playClick
    \/ playInitializes
    \/ playsContinue
    \/ pauseClick
    \/ resumeClick
    \/ stopClick
    \/ TrackAdvances
    \/ ended
    \/ \E event \in KeyEvents : handleKeyDown(event)
    \/ \E event \in KeyEvents : handleKeyUp(event)
    \/ handleBlur
    \/ KeysAdvance

SpecKeys == Init /\ [][NextKeys]_vars

\* the application without its keys and voices, with the difficulty select
NextRender ==
    \/ PreloadSamples
    \/ CanPlayThrough
    \/ playClick
    \/ playInitializes
    \/ playsContinue
    \/ pauseClick
    \/ resumeClick
    \/ stopClick
    \/ TrackAdvances
    \/ ended
    \/ \E d \in Difficulties : setDifficulty(d)
    \/ \E id \in 1..MaxFrames : FrameCallback(id)
    \/ AppAdvance

SpecRender == Init /\ [][NextRender]_vars

----------------------------------------------------------------------------
(* initialize() after the two background tasks of the constructor, with     *)
(* voices played once the engine is ready.                                  *)

NextInitialize ==
    \/ PreloadSamples
    \/ PreloadFails
    \/ CanPlayThrough
    \/ BackingTrackError
    \/ initialize
    \/ \E id \in InputIDs, m \in Pitches : playNote(id, m)
    \/ \E id \in InputIDs, m \in Pitches : stopNote(id, m)

SpecInitialize == Init /\ [][NextInitialize]_vars

----------------------------------------------------------------------------
(* The two gain buses: AudioEngine.setBackingTrackVolume and                *)
(* setSamplesMasterVolume, with clampVolume of audio-utils.  Volumes and    *)
(* gains are in thousandths.                                                *)

\* the bounds clampVolume clamps to: 0.0 and 1.0
VOLUME_MIN == 0

VOLUME_MAX == 1000

\* Math.max and Math.min
Max(a, b) == IF a >= b THEN a ELSE b

Min(a, b) == IF a <= b THEN a ELSE b

\* a clamp from above only
clampVolumeFromAbove(volume) == Min(volume, VOLUME_MAX)

\* Math.min(Math.max(volume, 0.0), 1.0)
clampVolume(volume) == Min(Max(volume, VOLUME_MIN), VOLUME_MAX)

setBackingTrackVolume(volume) ==
    /\ backingTrackGain' = clampVolume(volume)
    /\ volumeCalls' = [volumeCalls EXCEPT !.backingTrack = <<volume>>]
    /\ UNCHANGED <<samplesMasterGain, progVars, prefVars, uiVars>>
    /\ UNCHANGED <<timingVars, voiceVars, loaderVars, engineVars, initVars, appVars>>

setSamplesMasterVolume(volume) ==
    /\ samplesMasterGain' = clampVolume(volume)
    /\ volumeCalls' = [volumeCalls EXCEPT !.samples = <<volume>>]
    /\ UNCHANGED <<backingTrackGain, progVars, prefVars, uiVars>>
    /\ UNCHANGED <<timingVars, voiceVars, loaderVars, engineVars, initVars, appVars>>

\* the buses with voices playing through them
NextMixer ==
    \/ PreloadSamples
    \/ CanPlayThrough
    \/ Initialize
    \/ \E id \in InputIDs, m \in Pitches : playNote(id, m)
    \/ \E id \in InputIDs, m \in Pitches : stopNote(id, m)
    \/ \E volume \in Volumes : setBackingTrackVolume(volume)
    \/ \E volume \in Volumes : setSamplesMasterVolume(volume)

SpecMixer == Init /\ [][NextMixer]_vars

----------------------------------------------------------------------------
(* The progression functions, called with an elapsedBeats value; the while  *)
(* loop of getChordInfo is followed one measure at a time over the chord    *)
(* table progression.                                                       *)

\* a chord table whose measures all carry one label
OneChordVamp == [m \in 1..TOTAL_MEASURES |-> "C7"]

\* the chord tables the scan is run over
Progressions == {TWELVE_BAR_BLUES, OneChordVamp}

\* getBeatNumberInMeasure, getMeasureIndex, getMeasureNumberInProgression and
\* getLoopsCompleted of b
CountsOf(b) ==
    [beatNumberInMeasure |-> getBeatNumberInMeasure(b),
     measureIndex |-> getMeasureIndex(b),
     measureNumberInProgression |-> getMeasureNumberInProgression(b),
     loopsCompleted |-> getLoopsCompleted(b)]

\* the progression functions are called with b; getChordInfo(b) runs up to
\* the head of its while loop
progressionQuery(b) ==
    /\ scan.pc # "scanning"
    /\ queried' = b
    /\ counts' = CountsOf(b)
    /\ scan' = [pc |-> "scanning",
                i |-> getMeasureIndex(b),
                steps |-> 0,
                currentChord |-> progression[getMeasureIndex(b) + 1],
                result |-> NoInfo]
    /\ UNCHANGED <<progression, timingVars, voiceVars, loaderVars, engineVars, mixVars, prefVars, uiVars,
                   initVars, appVars>>

\* the loop condition: TWELVE_BAR_BLUES[i] === currentChord
ScanContinues == progression[scan.i + 1] = scan.currentChord

\* one turn of the loop: i = (i + 1) % TOTAL_MEASURES
ScanStep ==
    /\ scan.pc = "scanning"
    /\ ScanContinues
    /\ scan.steps < MaxScanSteps
    /\ scan' = [scan EXCEPT !.i = (scan.i + 1) % TOTAL_MEASURES,
                            !.steps = scan.steps + 1]
    /\ UNCHANGED <<progression, queried, counts>>
    /\ UNCHANGED <<timingVars, voiceVars, loaderVars, engineVars, mixVars, prefVars, uiVars, initVars,
                   appVars>>

\* a distance counted from the start of the current measure
ScanResultFromMeasureStart ==
    [currentChord |-> scan.currentChord,
     nextChord |-> progression[scan.i + 1],
     beatsUntilNextChord |->
        ((scan.i * BEATS_PER_MEASURE) - (getMeasureIndex(queried) * BEATS_PER_MEASURE)
            + TOTAL_BEATS) % TOTAL_BEATS]

\* the object getChordInfo returns once the loop has ended at measure i
ScanResult ==
    [currentChord |-> scan.currentChord,
     nextChord |-> progression[scan.i + 1],
     beatsUntilNextChord |->
        ((scan.i * BEATS_PER_MEASURE) - (queried % TOTAL_BEATS) + TOTAL_BEATS)
            % TOTAL_BEATS]

\* the loop ends and getChordInfo returns
ScanReturn ==
    /\ scan.pc = "scanning"
    /\ ~ScanContinues
    /\ scan' = [scan EXCEPT !.pc = "returned", !.result = ScanResult]
    /\ UNCHANGED <<progression, queried, counts>>
    /\ UNCHANGED <<timingVars, voiceVars, loaderVars, engineVars, mixVars, prefVars, uiVars, initVars,
                   appVars>>

NextProgression ==
    \/ \E b \in 0..MaxBeats : progressionQuery(b)
    \/ ScanStep
    \/ ScanReturn

SpecProgression == Init /\ [][NextProgression]_vars

\* the scan over any of the chord tables
InitScan ==
    /\ InitEngines
    /\ progression \in Progressions
    /\ InitPreferences(StoredNull)

SpecScan == InitScan /\ [][NextProgression]_vars

----------------------------------------------------------------------------
(* Transport claims *)

Paused == ~isPlaying /\ startTime # Null /\ pausedAt # Null

\* C1: start(); clock += D1; pause(); clock += D2; resume(); clock += D3
\* yields the same getCurrentPosition() result, in every field, as the
\* uninterrupted run start(); clock += D1 + D3 (played = D1 + D3).
C1_PauseResumeRoundTrip ==
    script = "resumed" => getCurrentPosition = PositionAt(played)

\* C2: resume() on a transport that was never started (or was stopped) fails
\* with 'not started', resume() on a running transport fails with
\* 'not paused', and both leave startTime, pausedAt and isPlaying unchanged.
C2_ResumeRejectedUnlessPaused ==
    [][resume =>
        /\ (startTime = Null =>
                /\ ret'.err = "not started"
                /\ UNCHANGED <<startTime, pausedAt, isPlaying>>)
        /\ (isPlaying =>
                /\ ret'.err = "not paused"
                /\ UNCHANGED <<startTime, pausedAt, isPlaying>>)]_vars

\* C3: whenever the transport is paused, resume() raises no error, moves
\* startTime forward by the paused duration, clears pausedAt and sets
\* isPlaying, whatever clock reading start() captured, 0 included.
C3_ResumeFromPausedSucceeds ==
    [][(resume /\ Paused) =>
        /\ ret'.err = "none"
        /\ startTime' = startTime + (clock - pausedAt)
        /\ pausedAt' = Null
        /\ isPlaying' = TRUE]_vars

\* C4 as stated: getCurrentPosition() on a paused transport computes the
\* position from the clock as in the running state, and the idle result is
\* returned only when the transport is idle.
C4_PausedComputesPosition ==
    [][queryPosition =>
        ret'.pos = IF startTime = Null THEN IdlePosition
                   ELSE PositionAt(clock - startTime)]_vars

\* C4 amended: getCurrentPosition() computes the position from the clock only
\* while the transport is running (phase by elapsedTotal = now - startTime +
\* lead time against the silence offset and the count-in); on a paused
\* transport it returns the idle result: phase 'waiting', currentChord null,
\* nextChord the first chord, loopsCompleted 0 and no beat data.
C4_PausedReturnsIdleResult ==
    [][queryPosition =>
        /\ (~isPlaying =>
                /\ ret'.pos.phase = "waiting"
                /\ ret'.pos.currentChord = NoChord
                /\ ret'.pos.nextChord = TWELVE_BAR_BLUES[1]
                /\ ret'.pos.beatNumberInMeasure = Null
                /\ ret'.pos.measureNumberInProgression = Null
                /\ ret'.pos.beatsUntilNextChord = Null
                /\ ret'.pos.beatProgress = Null
                /\ ret'.pos.loopsCompleted = 0)
        /\ (isPlaying =>
                LET elapsedTotal == clock - startTime + VISUAL_LEAD_TIME
                    progressionStart == silenceOffset + countInBeats * beatDuration
                IN  /\ elapsedTotal < silenceOffset => ret'.pos.phase = "waiting"
                    /\ (elapsedTotal >= silenceOffset /\ elapsedTotal < progressionStart)
                          => /\ ret'.pos.phase = "count-in"
                             /\ ret'.pos.currentChord = NoChord
                    /\ elapsedTotal >= progressionStart
                          => /\ ret'.pos.phase = "playing"
                             /\ ret'.pos.currentChord # NoChord
                             /\ ret'.pos.loopsCompleted * TOTAL_BEATS
                                  + (ret'.pos.measureNumberInProgression - 1)
                                      * BEATS_PER_MEASURE
                                  + ret'.pos.beatNumberInMeasure - 1
                                = (elapsedTotal - progressionStart) \div beatDuration)
       ]_vars

\* a position was read on a paused transport whose clock is past the count-in
C4_Witness ==
    /\ ret.op = "getCurrentPosition"
    /\ Paused
    /\ clock - startTime + VISUAL_LEAD_TIME
         >= silenceOffset + countInBeats * beatDuration
    /\ ret.pos.phase = "waiting"

\* C5: in phase 'playing' the reported currentChord is the first chord once
\* loopsCompleted >= maxLoops, and the chord of the current measure while
\* loopsCompleted < maxLoops.
C5_MaxLoopsForcesFirstChord ==
    (ret.op = "getCurrentPosition" /\ ret.pos.phase = "playing") =>
        /\ ret.pos.loopsCompleted >= maxLoops
              => ret.pos.currentChord = TWELVE_BAR_BLUES[1]
        /\ ret.pos.loopsCompleted < maxLoops
              => ret.pos.currentChord
                   = TWELVE_BAR_BLUES[ret.pos.measureNumberInProgression]

----------------------------------------------------------------------------
(* Voice engine claims *)

\* the voices of identity id that sound and have no stop scheduled
SoundingUnstopped(id) ==
    {n \in DOMAIN nodes :
        /\ nodes[n].inputID = id
        /\ nodes[n].status = "sounding"
        /\ ~nodes[n].stopScheduled}

\* C6: after playNote(id, p1) then playNote(id, p2), with the engine ready and
\* both buffers decoded, the one voice registered under id carries p2 and the
\* earlier voice has its stop scheduled; and after any sequence of playNote,
\* stopNote, stopAllSamples and ended events at most one voice per identity
\* sounds without a scheduled stop.
C6_OneVoicePerIdentity ==
    /\ [](\A id \in InputIDs : Cardinality(SoundingUnstopped(id)) <= 1)
    /\ [][\A id \in InputIDs, m \in Pitches :
            (playNote(id, m) /\ ctxState = "running" /\ m \in samples) =>
                /\ HasActive(id)'
                /\ nodes'[activeSources'[id]].midiNumber = m
                /\ SoundingUnstopped(id)' = {activeSources'[id]}
                /\ HasActive(id) => nodes'[activeSources[id]].stopScheduled
         ]_vars

\* a second playNote of an identity replaced a voice that is still sounding
C6_Witness ==
    \E n1, n2 \in DOMAIN nodes :
        /\ vret.op = "playNote"
        /\ vret.node = n2
        /\ n1 < n2
        /\ nodes[n1].inputID = nodes[n2].inputID
        /\ nodes[n1].midiNumber # nodes[n2].midiNumber
        /\ nodes[n1].status = "sounding"
        /\ nodes[n1].stopScheduled
        /\ activeSources[nodes[n2].inputID] = n2

C8_EndedDeletesOnlyOwnEntry ==
    [][\A n \in 1..MaxNodes :
            onended(n) =>
                \A id \in InputIDs :
                    activeSources'[id] # activeSources[id]
                        => (activeSources[id] = n /\ activeSources'[id] = 0)
      ]_vars

\* the ended callback of an old voice ran while a newer voice of the same
\* identity was registered, and that voice is still registered
C8_Witness ==
    /\ vret.op = "onended"
    /\ activeSources[vret.inputID] # 0
    /\ activeSources[vret.inputID] > vret.node
    /\ nodes[activeSources[vret.inputID]].status = "sounding"

----------------------------------------------------------------------------
(* Sample cache claims *)

\* the loadSample calls of url that issued a fetch which did not fail
LiveFetches(url) ==
    {i \in DOMAIN loads :
        loads[i].url = url /\ loads[i].fetched /\ loads[i].pc # "rejected"}

\* C9: for every interleaving of loadSample calls, a key is fetched and
\* decoded at most once: a call issued while a load of the same key is in
\* flight starts no second fetch (a repeated key in loadMultipleSamples
\* included).
C9_OneFetchPerKey ==
    \A u \in Urls : Cardinality(LiveFetches(u)) <= 1

\* C10: once a loadSample(key) has resolved, every later loadSample(key) of
\* callers that load sequentially resolves to the same buffer object and
\* issues no fetch.
C10_SequentialLoadsMemoized ==
    \A i, j \in DOMAIN loads :
        (i < j /\ loads[i].url = loads[j].url /\ loads[i].pc = "resolved") =>
            /\ loads[j].pc = "resolved"
            /\ ~loads[j].fetched
            /\ loads[j].buffer = loads[i].buffer

\* a load that fetched and decoded, and a later load of the key served from
\* the cache
C10_Witness ==
    \E i, j \in DOMAIN loads :
        /\ i < j
        /\ loads[i].url = loads[j].url
        /\ loads[i].pc = "resolved"
        /\ loads[i].fetched
        /\ loads[j].pc = "resolved"
        /\ ~loads[j].fetched
        /\ loads[j].buffer = loads[i].buffer

\* C11: when the fetch fails (network error or a response that is not ok) or
\* decoding fails, that loadSample call is rejected with the error of the
\* failure, the cache is left as it was (no entry for the key, no other entry
\* changed), no cache entry exists for a key without a resolved load, and a
\* later loadSample of a key whose loads so far all failed fetches again.
C11_FailedLoadRejectsAndRetries ==
    /\ [][\A i \in 1..MaxLoads :
            /\ FetchFails(i) =>
                  /\ loads'[i].pc = "rejected"
                  /\ loads'[i].error \in FetchErrors
                  /\ loads'[i].buffer = 0
                  /\ cache' = cache
            /\ DecodeFails(i) =>
                  /\ loads'[i].pc = "rejected"
                  /\ loads'[i].error = "decode"
                  /\ loads'[i].buffer = 0
                  /\ cache' = cache
         ]_vars
    /\ [](\A u \in Urls :
            cache[u] # 0 =>
                \E i \in DOMAIN loads : loads[i].url = u /\ loads[i].pc = "resolved")
    /\ [][\A u \in Urls :
            (/\ loadSample(u)
             /\ \E i \in DOMAIN loads : loads[i].url = u /\ loads[i].pc = "rejected"
             /\ ~\E i \in DOMAIN loads : loads[i].url = u /\ loads[i].pc = "resolved")
                => /\ loads'[Len(loads) + 1].pc = "fetching"
                   /\ loads'[Len(loads) + 1].fetched
         ]_vars

\* a load was rejected, the key has no cache entry, a later load of the key
\* fetched again, and the entry of the other key is still there
C11_Witness ==
    \E i, j \in DOMAIN loads :
        /\ i < j
        /\ loads[i].url = loads[j].url
        /\ loads[i].pc = "rejected"
        /\ loads[j].pc = "fetching"
        /\ loads[j].fetched
        /\ cache[loads[i].url] = 0
        /\ \E u \in Urls : u # loads[i].url /\ cache[u] # 0


----------------------------------------------------------------------------
(* Preload claims *)

\* the loadSample calls made by the loadMultipleSamples call b
Members(b) == {i \in DOMAIN loads : loads[i].batch = b}

\* C12: a loadMultipleSamples call resolves only if every one of its
\* loadSample calls resolved, and is rejected as soon as one of them is
\* rejected; samplesLoaded is true only if every required sample is in the
\* engine's sample map; if the load of a required sample fails, the
\* engine's sample map holds no required sample and samplesLoaded is false.
C12_AllOrNothingBulkLoad ==
    /\ \A b \in 1..MaxLoads :
          Members(b) # {} =>
            /\ PromiseAll(b) = "resolved" =>
                  \A i \in Members(b) : loads[i].pc = "resolved" /\ loads[i].buffer # 0
            /\ (\E i \in Members(b) : loads[i].pc = "rejected") =>
                  PromiseAll(b) = "rejected"
    /\ samplesLoaded =>
          /\ REQUIRED_SAMPLES \subseteq samples
          /\ \A i \in Members(samplesLoadingPromise) : loads[i].pc = "resolved"
    /\ (/\ samplesLoadingPromise # 0
        /\ \E i \in Members(samplesLoadingPromise) : loads[i].pc = "rejected") =>
          /\ ~samplesLoaded
          /\ samples \cap REQUIRED_SAMPLES = {}

\* the preload was rejected because one required sample failed, although
\* another required sample was decoded and cached
C12_Witness ==
    /\ samplesLoadingPromise # 0
    /\ samplesLoadingError
    /\ \E i, j \in Members(samplesLoadingPromise) :
          /\ loads[i].pc = "rejected"
          /\ loads[j].pc = "resolved"
          /\ cache[loads[j].url] # 0
    /\ samples = {}
    /\ ~samplesLoaded


----------------------------------------------------------------------------
(* Transport contract claims *)

\* C13: start() while the engine is not ready (samples not all loaded, or
\* backing track not buffered, or audio context not running) throws 'not
\* ready' and leaves startTime, pausedAt and isPlaying unchanged; start()
\* while ready sets startTime to the clock reading and isPlaying to true; so
\* the transport is never running unless sample loading and backing-track
\* buffering both resolved successfully.
C13_StartRequiresReady ==
    /\ [][start =>
            IF samplesLoaded /\ backingTrackCanPlayThrough /\ ctxState = "running"
            THEN /\ ret'.err = "none"
                 /\ startTime' = clock
                 /\ isPlaying' = TRUE
            ELSE /\ ret'.err = "not ready"
                 /\ UNCHANGED <<startTime, pausedAt, isPlaying>>
         ]_vars
    /\ [](isPlaying =>
            /\ samplesLoaded
            /\ backingTrackCanPlayThrough
            /\ ~samplesLoadingError
            /\ ~backingTrackCanPlayThroughError)

\* start() was refused on an idle transport whose samples and backing track
\* are loaded but whose audio context is still suspended
C13_Witness ==
    /\ ret.op = "start"
    /\ ret.err = "not ready"
    /\ samplesLoaded
    /\ backingTrackCanPlayThrough
    /\ ctxState = "suspended"
    /\ Idle


\* C14: stop() in any transport state (idle, running or paused) leaves
\* isPlaying false, startTime null and pausedAt null; in every reachable state
\* that is neither running nor paused (no pause instant recorded) startTime is
\* null; and resume() on the stopped transport fails with 'not started'.
C14_StopClearsEverything ==
    /\ [][stop => (~isPlaying' /\ startTime' = Null /\ pausedAt' = Null)]_vars
    /\ []((~isPlaying /\ pausedAt = Null) => startTime = Null)
    /\ [][(resume /\ ret.op = "stop") =>
            /\ ret'.err = "not started"
            /\ UNCHANGED <<startTime, pausedAt, isPlaying>>]_vars

\* stop() has ended a run during which the clock had advanced
C14_Witness ==
    /\ ret.op = "stop"
    /\ played > 0
    /\ advances > 0
    /\ Idle


\* C15: pause() on a transport that is not running (idle or already paused)
\* changes none of startTime, pausedAt and isPlaying, so a second pause()
\* does not move the pause instant; pause() on a running transport records
\* the clock reading as pausedAt, clears isPlaying and leaves startTime.
C15_PauseOnlyWhenRunning ==
    [][pause =>
        /\ ~isPlaying => UNCHANGED <<startTime, pausedAt, isPlaying>>
        /\ isPlaying =>
              /\ pausedAt' = clock
              /\ isPlaying' = FALSE
              /\ startTime' = startTime
        /\ ret'.err = "none"]_vars

\* pause() was called on a ready, idle transport after the clock had advanced
C15_Witness ==
    /\ ret.op = "pause"
    /\ Idle
    /\ isReady
    /\ clock > 0


\* C16: in every state reached by start / pause / resume / stop calls over a
\* non-decreasing clock, a paused transport (started and not running) has a
\* pause instant recorded and pausedAt >= startTime.
C16_PausedAtNotBeforeStart ==
    (~isPlaying /\ startTime # Null) =>
        /\ pausedAt # Null
        /\ pausedAt >= startTime


\* the elapsed beats a 'playing' result shows
ElapsedBeatsOf(pos) ==
    pos.loopsCompleted * TOTAL_BEATS
        + (pos.measureNumberInProgression - 1) * BEATS_PER_MEASURE
        + pos.beatNumberInMeasure - 1

\* C17: of two getCurrentPosition() reads taken while the transport is running,
\* with no start, pause, resume or stop between them and a non-decreasing
\* clock, the later read shows at least the elapsed beats of the earlier one;
\* the elapsed beats shown are floor(elapsedFromProgressionStart / beatDuration).
C17_ElapsedBeatsMonotonic ==
    [][(queryPosition /\ isPlaying) =>
        /\ ret'.pos.phase = "playing" =>
              ElapsedBeatsOf(ret'.pos)
                = (clock - startTime + VISUAL_LEAD_TIME
                     - (silenceOffset + countInBeats * beatDuration)) \div beatDuration
        /\ (ret.op = "getCurrentPosition" /\ ret.pos.phase = "playing") =>
              /\ ret'.pos.phase = "playing"
              /\ ElapsedBeatsOf(ret'.pos) >= ElapsedBeatsOf(ret.pos)
      ]_vars

\* a read in phase 'playing' was taken on the running transport and the
\* clock has since moved into a later loop, with no transport call after the
\* read
C17_Witness ==
    /\ ret.op = "getCurrentPosition"
    /\ isPlaying
    /\ ret.pos.phase = "playing"
    /\ ElapsedBeatsOf(ret.pos) + TOTAL_BEATS
         < (clock - startTime + VISUAL_LEAD_TIME
              - (silenceOffset + countInBeats * beatDuration)) \div beatDuration

\* C18: getCurrentPosition() is a pure query: in every transport state a call
\* leaves startTime, pausedAt and isPlaying (and everything else but its
\* returned value) unchanged, nothing is scheduled, and a second call at the
\* same clock reading in the same state returns the same result.
C18_PositionQueryIsPure ==
    [][queryPosition =>
        /\ UNCHANGED <<startTime, pausedAt, isPlaying>>
        /\ UNCHANGED <<clock, ctxState, samplesLoaded, backingTrackCanPlayThrough,
                       advances, voiceVars, loaderVars, engineVars>>
        /\ ret'.err = "none"
        /\ ret'.pos = getCurrentPosition
        /\ ret'.pos = getCurrentPosition'
      ]_vars

\* a read was taken in the count-in of a running transport and a second read
\* now returns the same result
C18_Witness ==
    /\ ret.op = "getCurrentPosition"
    /\ isPlaying
    /\ ret.pos.phase = "count-in"
    /\ ret.pos = getCurrentPosition


\* C19: getCurrentPosition() on an idle transport (never started, or stopped)
\* returns phase 'waiting', currentChord null, nextChord the first chord of
\* the progression, loopsCompleted 0 and no beat data, at every clock reading.
C19_IdlePosition ==
    [][(queryPosition /\ Idle) =>
        /\ ret'.pos.phase = "waiting"
        /\ ret'.pos.currentChord = NoChord
        /\ ret'.pos.nextChord = TWELVE_BAR_BLUES[1]
        /\ ret'.pos.loopsCompleted = 0
        /\ ret'.pos.beatNumberInMeasure = Null
        /\ ret'.pos.measureNumberInProgression = Null
        /\ ret'.pos.beatsUntilNextChord = Null
        /\ ret'.pos.beatProgress = Null
      ]_vars

\* a read was taken on a transport stopped after a run, at a clock reading
\* past the count-in
C19_Witness ==
    /\ ret.op = "getCurrentPosition"
    /\ Idle
    /\ played > 0
    /\ clock > silenceOffset + countInBeats * beatDuration
    /\ ret.pos.phase = "waiting"
    /\ ret.pos.nextChord = "C7"


\* C20: on a running transport, with elapsedTotal = now - startTime + lead
\* time: below silenceOffset the phase is 'waiting' and beatsUntilNextChord is
\* null; from silenceOffset up to silenceOffset + countInBeats * beatDuration
\* the phase is 'count-in', currentChord is null, nextChord is the first chord
\* and beatsUntilNextChord is the ceiling of the remaining count-in time in
\* beats, an integer in 1..countInBeats; from there on the phase is 'playing'.
C20_PreProgressionPhases ==
    [][(queryPosition /\ isPlaying) =>
        LET elapsedTotal == clock - startTime + VISUAL_LEAD_TIME
            progressionStart == silenceOffset + countInBeats * beatDuration
            remaining == progressionStart - elapsedTotal
            beats == ret'.pos.beatsUntilNextChord
        IN  /\ elapsedTotal < silenceOffset =>
                  /\ ret'.pos.phase = "waiting"
                  /\ beats = Null
            /\ (elapsedTotal >= silenceOffset /\ elapsedTotal < progressionStart) =>
                  /\ ret'.pos.phase = "count-in"
                  /\ ret'.pos.currentChord = NoChord
                  /\ ret'.pos.nextChord = TWELVE_BAR_BLUES[1]
                  /\ beats \in 1..countInBeats
                  /\ (beats - 1) * beatDuration < remaining
                  /\ remaining <= beats * beatDuration
            /\ elapsedTotal >= progressionStart => ret'.pos.phase = "playing"
      ]_vars

\* a read was taken at the very end of the silence: the count-in has its
\* full length ahead
C20_Witness ==
    /\ ret.op = "getCurrentPosition"
    /\ isPlaying
    /\ clock - startTime + VISUAL_LEAD_TIME = silenceOffset
    /\ ret.pos.phase = "count-in"
    /\ ret.pos.beatsUntilNextChord = countInBeats

----------------------------------------------------------------------------
(* Progression claims *)

\* C21: for every integer elapsedBeats b >= 0, getBeatNumberInMeasure(b) is in
\* 1..BEATS_PER_MEASURE and is the same BEATS_PER_MEASURE beats later;
\* getMeasureIndex(b) is in 0..TOTAL_MEASURES-1 and equals
\* floor(b / BEATS_PER_MEASURE) mod TOTAL_MEASURES; getLoopsCompleted(b) is
\* floor(b / TOTAL_BEATS).
C21_CountingFunctions ==
    scan.pc # "idle" =>
        /\ counts.beatNumberInMeasure \in 1..BEATS_PER_MEASURE
        /\ counts.beatNumberInMeasure =
                getBeatNumberInMeasure(queried + BEATS_PER_MEASURE)
        /\ counts.measureIndex \in 0..(TOTAL_MEASURES - 1)
        /\ counts.measureIndex = (queried \div BEATS_PER_MEASURE) % TOTAL_MEASURES
        /\ counts.loopsCompleted * TOTAL_BEATS <= queried
        /\ queried < (counts.loopsCompleted + 1) * TOTAL_BEATS

\* the last beat of the first measure of the third loop
C21_Witness ==
    /\ scan.pc # "idle"
    /\ queried = 2 * TOTAL_BEATS + BEATS_PER_MEASURE - 1
    /\ counts.beatNumberInMeasure = BEATS_PER_MEASURE
    /\ counts.measureIndex = 0
    /\ counts.loopsCompleted = 2

\* C22: for every integer elapsedBeats b >= 0, getChordInfo(b).beatsUntilNextChord
\* is in 0..TOTAL_BEATS-1, and beatsUntilNextChord beats after b the current
\* chord is another one than at b.
C22_NextChordIsReached ==
    scan.pc # "idle" =>
        LET info == getChordInfo(queried)
        IN  /\ info.beatsUntilNextChord \in 0..(TOTAL_BEATS - 1)
            /\ getChordInfo(queried + info.beatsUntilNextChord).currentChord
                    # info.currentChord

\* the last beat of a loop: the next chord is the first one of the next loop
C22_Witness ==
    /\ scan.pc = "returned"
    /\ queried = TOTAL_BEATS - 1
    /\ getChordInfo(queried).beatsUntilNextChord = 1
    /\ getChordInfo(queried + 1).currentChord = "C7"
    /\ getChordInfo(queried).currentChord = "G7"

\* the chord of the measure a beat lies in
ChordAt(b) == TWELVE_BAR_BLUES[((b \div BEATS_PER_MEASURE) % TOTAL_MEASURES) + 1]

\* C23: what getChordInfo(b) returns is the chord of measure
\* floor(b / 4) mod 12, the first different label met scanning forward with
\* wrap-around, and the exact distance to it: the chord is currentChord at
\* every beat of b..b+beatsUntilNextChord-1 and nextChord at
\* b+beatsUntilNextChord.  b = 0 gives (C7, F7, 16), b = 16 (F7, C7, 8) and
\* b = 44 (G7, C7, 4).
C23_ChordInfoMatchesReference ==
    scan.pc = "returned" =>
        LET info == scan.result
        IN  /\ info.currentChord = ChordAt(queried)
            /\ info.nextChord # info.currentChord
            /\ info.beatsUntilNextChord \in Nat
            /\ \A b \in queried..(queried + info.beatsUntilNextChord - 1) :
                    ChordAt(b) = info.currentChord
            /\ ChordAt(queried + info.beatsUntilNextChord) = info.nextChord
            /\ info = getChordInfo(queried)
            /\ queried = 0 =>
                    info = [currentChord |-> "C7", nextChord |-> "F7",
                            beatsUntilNextChord |-> 16]
            /\ queried = 16 =>
                    info = [currentChord |-> "F7", nextChord |-> "C7",
                            beatsUntilNextChord |-> 8]
            /\ queried = 44 =>
                    info = [currentChord |-> "G7", nextChord |-> "C7",
                            beatsUntilNextChord |-> 4]

\* a query in the middle of a measure, one measure before the chord changes
C23_Witness ==
    /\ scan.pc = "returned"
    /\ queried = 42
    /\ scan.steps = 1
    /\ scan.result = [currentChord |-> "C7", nextChord |-> "G7",
                      beatsUntilNextChord |-> 2]

----------------------------------------------------------------------------
(* Voice handler claims *)

\* C25: playNote fails silently when the context is not running or the pitch
\* has no buffer: it returns null, and the registry and every voice are as
\* before (a voice registered under the identity is not stopped).  Otherwise
\* it registers under the identity a new voice that carries the pitch and
\* sounds at full per-voice gain.
C25_PlayNoteFailsSilently ==
    [][\A id \in InputIDs, m \in Pitches :
        playNote(id, m) =>
            IF ctxState # "running" \/ m \notin samples
            THEN /\ vret'.node = 0
                 /\ activeSources' = activeSources
                 /\ nodes' = nodes
            ELSE LET n == activeSources'[id]
                 IN  /\ n # 0
                     /\ n = vret'.node
                     /\ n \notin DOMAIN nodes
                     /\ nodes'[n].inputID = id
                     /\ nodes'[n].midiNumber = m
                     /\ nodes'[n].gain = FULL_GAIN
                     /\ nodes'[n].status = "sounding"
                     /\ ~nodes'[n].stopScheduled]_vars

\* a playNote without buffer under an identity whose voice goes on sounding
C25_Witness ==
    /\ vret.op = "playNote"
    /\ vret.node = 0
    /\ vret.midiNumber \notin samples
    /\ ctxState = "running"
    /\ HasActive(vret.inputID)
    /\ nodes[activeSources[vret.inputID]].status = "sounding"
    /\ ~nodes[activeSources[vret.inputID]].stopScheduled
    /\ nodes[activeSources[vret.inputID]].gain = FULL_GAIN

\* C26: stopNote on an identity with no registered voice changes nothing: the
\* registry and every voice, with its scheduled fade, are as before.  When a
\* voice is registered under the identity it is stopped and unregistered,
\* also when the pitch argument is not the pitch of that voice; the other
\* voices and registry entries are left alone.
C26_StopNoteByIdentity ==
    [][\A id \in InputIDs, m \in Pitches :
        stopNote(id, m) =>
            IF activeSources[id] = 0
            THEN /\ activeSources' = activeSources
                 /\ nodes' = nodes
            ELSE /\ activeSources'[id] = 0
                 /\ nodes'[activeSources[id]].stopScheduled
                 /\ \A other \in InputIDs \ {id} :
                        activeSources'[other] = activeSources[other]
                 /\ \A n \in DOMAIN nodes \ {activeSources[id]} :
                        nodes'[n] = nodes[n]]_vars

\* a voice stopped by a stopNote that named another pitch, a second voice
\* still registered and sounding
C26_Witness ==
    /\ vret.op = "stopNote"
    /\ vret.node # 0
    /\ nodes[vret.node].midiNumber # vret.midiNumber
    /\ nodes[vret.node].stopScheduled
    /\ activeSources[vret.inputID] = 0
    /\ \E other \in InputIDs :
          /\ HasActive(other)
          /\ ~nodes[activeSources[other]].stopScheduled

\* C27: stopAllSamples stops every registered voice, however many there are:
\* none is skipped while the registry changes under the iteration, the
\* registry is empty afterwards and no voice sounds without a scheduled stop.
\* Called again at once it changes nothing.
C27_StopAllSamplesStopsAll ==
    [][stopAllSamples =>
        /\ \A id \in InputIDs : activeSources'[id] = 0
        /\ \A id \in InputIDs :
              activeSources[id] # 0 => nodes'[activeSources[id]].stopScheduled
        /\ vret'.stopped = {activeSources[id] : id \in InputIDs} \ {0}
        /\ \A n \in DOMAIN nodes' :
              nodes'[n].status = "sounding" => nodes'[n].stopScheduled
        /\ vret.op = "stopAllSamples" =>
              (activeSources' = activeSources /\ nodes' = nodes)]_vars

\* one call stopped two registered voices
C27_Witness ==
    /\ vret.op = "stopAllSamples"
    /\ Cardinality(vret.stopped) = 2
    /\ \A n \in vret.stopped : nodes[n].stopScheduled /\ nodes[n].status = "sounding"
    /\ \A id \in InputIDs : activeSources[id] = 0

----------------------------------------------------------------------------
(* Gain bus claims *)

\* the gain a bus has after its last set call, or its default
ExpectedGain(calls, default) ==
    IF calls = <<>> THEN default
    ELSE IF calls[1] < 0 THEN 0
    ELSE IF calls[1] > 1000 THEN 1000
    ELSE calls[1]

\* C28: after any sequence of setBackingTrackVolume(v) and
\* setSamplesMasterVolume(v) calls, v below 0 and above 1 included, each bus
\* gain is in [0, 1] and is min(max(v, 0), 1) of the last v set on that bus,
\* or the default of the bus when none was set; setting one bus changes
\* neither the other bus nor the gain of any voice.
C28_BusGainsClamped ==
    /\ [](/\ samplesMasterGain \in 0..1000
          /\ backingTrackGain \in 0..1000
          /\ samplesMasterGain = ExpectedGain(volumeCalls.samples, 800)
          /\ backingTrackGain = ExpectedGain(volumeCalls.backingTrack, 600))
    /\ [][\A volume \in Volumes :
            /\ setBackingTrackVolume(volume) =>
                  (samplesMasterGain' = samplesMasterGain /\ nodes' = nodes)
            /\ setSamplesMasterVolume(volume) =>
                  (backingTrackGain' = backingTrackGain /\ nodes' = nodes)]_vars

\* one bus set below the range, the other above it, a voice sounding at full
\* gain
C28_Witness ==
    /\ volumeCalls.samples = <<-500>>
    /\ samplesMasterGain = 0
    /\ volumeCalls.backingTrack = <<1500>>
    /\ backingTrackGain = 1000
    /\ \E n \in DOMAIN nodes : nodes[n].status = "sounding" /\ nodes[n].gain = FULL_GAIN

----------------------------------------------------------------------------
(* Initialization claims *)

\* C29: initialize() resolves only if the required samples are decoded, the
\* backing track reported canplaythrough and the context is running after the
\* resume attempt, so that isReady() holds when it has resolved; otherwise it
\* rejects, with an error that tells failed samples, a failed backing track
\* and a context that is not running apart.  The two background tasks of the
\* constructor never reject: they store their error, and it is initialize()
\* that reports it.
C29_InitializeResolvesWhenReady ==
    /\ [][initialize =>
            /\ initResult' = "resolved" <=>
                  (/\ samplesLoaded'
                   /\ backingTrackCanPlayThrough'
                   /\ ctxState' = "running")
            /\ ~samplesLoaded => initResult' = "samples failed to load"
            /\ (samplesLoaded /\ ~backingTrackCanPlayThrough) =>
                  initResult' = "backing track failed to load"
            /\ (samplesLoaded /\ backingTrackCanPlayThrough /\ ctxState' # "running") =>
                  initResult' = "failed to resume AudioContext"]_vars
    /\ [](/\ tasks.samples # "rejected"
          /\ tasks.backingTrack # "rejected"
          /\ samplesLoadingError => (tasks.samples = "fulfilled" /\ ~samplesLoaded)
          /\ backingTrackCanPlayThroughError =>
                (tasks.backingTrack = "fulfilled" /\ ~backingTrackCanPlayThrough)
          /\ initResult \in {"samples failed to load", "backing track failed to load"}
                => (samplesLoadingError \/ backingTrackCanPlayThroughError))

\* the samples are decoded, the backing track failed in the background, and
\* initialize() reported it
C29_Witness ==
    /\ initResult = "backing track failed to load"
    /\ samplesLoaded
    /\ backingTrackCanPlayThroughError
    /\ tasks.backingTrack = "fulfilled"

----------------------------------------------------------------------------
(* Application claims *)

\* C30: when the backing track fires 'ended' while the app is PLAYING or
\* PAUSED, the app makes the stopped transition: its state is STOPPED, the
\* transport is idle (startTime and pausedAt null), the backing track is
\* back at position 0, keyboard input is disabled with no key active, no
\* voice is registered and no render loop is left scheduled.
C30_EndedMakesStoppedTransition ==
    [][(ended /\ appState \in {"PLAYING", "PAUSED"}) =>
        /\ appState' = "STOPPED"
        /\ startTime' = Null
        /\ pausedAt' = Null
        /\ ~isPlaying'
        /\ track'.position = 0
        /\ ~track'.playing
        /\ ~keyboardEnabled'
        /\ activeKeys' = {}
        /\ \A id \in InputIDs : activeSources'[id] = 0
        /\ animationFrameId' = Null
        /\ frames' = {}]_vars

----------------------------------------------------------------------------
(* Transport invariants *)

\* C33: in every state reached by start, pause, resume and stop calls, a
\* running transport carries no recorded pause instant: isPlaying implies
\* pausedAt = null.
C33_RunningHasNoPauseInstant == isPlaying => pausedAt = Null

----------------------------------------------------------------------------
(* The preferences manager *)

\* how many set() calls are made in one behaviour
MaxSets == 3

\* the delay of the debounced save (ms)
DEBOUNCE_MS == 500

\* the keys and the values the callers pass to set()
SetKeys == {"difficulty", "samplesVolume", "samplesMuted", "toString", "theme"}

SetValues == {Str("hard"), Str("expert"), Num(250), Num(1500), Bool(TRUE), NaN}

\* the amounts (ms) by which time passes between two events
PrefDeltas == {200, 300}

engineSide == <<timingVars, voiceVars, loaderVars, engineVars, progVars, mixVars,
                initVars, appVars, uiVars>>

\* set(key, value) goes past both of its early returns
Accepted(key, value) == KeyInSchema(key) /\ Validate(key, value) # Undefined

\* clearTimeout(this.persistTimerId) when the identifier is truthy
ClearedTimers == {t \in timers : persistTimerId = Null \/ t.id # persistTimerId}

set(key, value) ==
    /\ pret.calls < MaxSets
    /\ IF ~Accepted(key, value)
       THEN /\ pret' = [calls |-> pret.calls + 1, key |-> key, value |-> value,
                        returned |-> Undefined]
            /\ UNCHANGED <<preferences, persistTimerId, timers, timerIds, saves>>
       ELSE /\ preferences' = [preferences EXCEPT ![key] = Validate(key, value)]
            /\ timerIds' = timerIds + 1
            /\ timers' = ClearedTimers \cup
                           {[id |-> timerIds + 1, remaining |-> DEBOUNCE_MS]}
            /\ persistTimerId' = timerIds + 1
            /\ pret' = [calls |-> pret.calls + 1, key |-> key, value |-> value,
                        returned |-> Validate(key, value)]
            /\ UNCHANGED saves
    /\ UNCHANGED engineSide

\* time passes while a timeout is not yet due
Elapse(d) ==
    /\ \E t \in timers : t.remaining > 0
    /\ timers' = {[id |-> t.id, remaining |-> Max(0, t.remaining - d)] : t \in timers}
    /\ UNCHANGED <<preferences, persistTimerId, timerIds, saves, pret>>
    /\ UNCHANGED engineSide

\* the callback of a due timeout
PersistTimerFires ==
    /\ \E t \in timers :
          /\ t.remaining = 0
          /\ timers' = timers \ {t}
    /\ saves' = Append(saves, preferences)
    /\ persistTimerId' = Null
    /\ UNCHANGED <<preferences, timerIds, pret>>
    /\ UNCHANGED engineSide

InitPrefs ==
    /\ InitEngines
    /\ progression = TWELVE_BAR_BLUES
    /\ \E stored \in StoredObjects : InitPreferences(stored)

NextPrefs ==
    \/ \E key \in SetKeys, value \in SetValues : set(key, value)
    \/ \E d \in PrefDeltas : Elapse(d)
    \/ PersistTimerFires

SpecPrefs == InitPrefs /\ [][NextPrefs]_vars

\* a due callback runs, and time does not stand still while one is pending
SpecPrefsFair ==
    /\ SpecPrefs
    /\ WF_vars(PersistTimerFires)
    /\ WF_vars(\E d \in PrefDeltas : Elapse(d))

\* the value is one the validator of the key lets through
ValidUnder(key, value) == value # Undefined /\ Validate(key, value) = value

\* C31: a set() call with a key that is no schema key, or with a value its
\* validator rejects, returns undefined, leaves the preferences as they were
\* and schedules no save; the loaded preferences and every object passed to
\* storageBackend.save() hold, under each schema key, a value that passes
\* that key's validator.
C31_OnlyValidPreferencesAccepted ==
    /\ [](\A k \in SchemaKeys :
            /\ ValidUnder(k, preferences[k])
            /\ \A i \in 1..Len(saves) : ValidUnder(k, saves[i][k]))
    /\ [][\A key \in SetKeys, value \in SetValues :
            (set(key, value) /\ (key \notin SchemaKeys \/ Validate(key, value) = Undefined))
                => /\ pret'.returned = Undefined
                   /\ preferences' = preferences
                   /\ timers' = timers
                   /\ persistTimerId' = persistTimerId]_vars

\* C39: the save is debounced. A set() call that passes validation leaves
\* exactly one timeout pending, due 500 ms later, so a burst of such calls
\* ends in one save; the callback saves the preferences as they are when it
\* runs and leaves no timeout pending; a pending save is eventually made and
\* holds the current preferences; a set() call with a key that is no schema
\* key, or with a value its validator rejects, neither cancels nor delays a
\* pending save.
C39_DebouncedPersistence ==
    /\ [](Cardinality(timers) <= 1)
    /\ [][\A key \in SetKeys, value \in SetValues :
            (set(key, value) /\ key \in SchemaKeys /\ Validate(key, value) # Undefined)
                => /\ timers' = {[id |-> persistTimerId', remaining |-> DEBOUNCE_MS]}
                   /\ saves' = saves]_vars
    /\ [][PersistTimerFires
            => /\ saves' = Append(saves, preferences)
               /\ timers' = {}
               /\ persistTimerId' = Null]_vars
    /\ [][\A key \in SetKeys, value \in SetValues :
            (set(key, value) /\ (key \notin SchemaKeys \/ Validate(key, value) = Undefined))
                => /\ timers' = timers
                   /\ persistTimerId' = persistTimerId
                   /\ saves' = saves]_vars
    /\ (timers # {}) ~> (/\ timers = {}
                         /\ Len(saves) > 0
                         /\ saves[Len(saves)] = preferences)

----------------------------------------------------------------------------
(* The renderer and the application *)

\* C32: stop() resets the renderer: after the stop button, Shift+Escape or
\* the end of the track the renderer holds no current chord, no active cell
\* and no next-chord countdown, whatever the difficulty and the position.
C32_StopResetsRenderer ==
    [][(stopClick \/ ended)
        => /\ renderer'.currentChord = NoChord
           /\ renderer'.activeCells = {}
           /\ renderer'.nextChordCountdown = Null]_vars

\* C34: after every handler the application and the transport agree: the
\* app is PLAYING exactly when the transport runs, PAUSED exactly when the
\* transport is paused with its pause instant recorded, STOPPED exactly when
\* the transport is idle; and an app that is PLAYING has its keyboard
\* enabled and a frame of its render loop scheduled.
C34_AppAgreesWithTransport ==
    /\ (appState = "PLAYING") <=> isPlaying
    /\ (appState = "PAUSED") <=> (~isPlaying /\ pausedAt # Null)
    /\ (appState = "STOPPED") <=> Idle
    /\ (appState = "PLAYING") => (keyboardEnabled /\ frames # {})

\* C35: whenever the app is not PLAYING the keyboard handler has no active
\* key and the voice registry is empty, and a step taken while the app is
\* not PLAYING and stays so starts no voice.
C35_QuietUnlessPlaying ==
    /\ [](appState # "PLAYING"
            => /\ activeKeys = {}
               /\ \A id \in InputIDs : activeSources[id] = 0)
    /\ [][(appState # "PLAYING" /\ appState' # "PLAYING")
            => /\ Len(nodes') = Len(nodes)
               /\ activeKeys' = {}]_vars

\* the app was paused after a key had sounded a voice and been released
C35_Witness ==
    /\ appState = "PAUSED"
    /\ activeKeys = {}
    /\ \E n \in 1..Len(nodes) :
          /\ nodes[n].stopScheduled
          /\ noteLog[nodes[n].inputID] = [prev |-> "notestart", last |-> "noteend"]

\* C36: for each key the 'notestart' and 'noteend' notifications alternate,
\* the first being a 'notestart', and the cells the renderer highlights are
\* the cells of the active keys of the keyboard handler.
C36_NotesAlternate ==
    /\ \A k \in InputIDs :
          /\ noteLog[k].last # "none" => noteLog[k].last # noteLog[k].prev
          /\ noteLog[k].prev = "none" => noteLog[k].last \in {"none", "notestart"}
          /\ (noteLog[k].last = "notestart") <=> (k \in activeKeys)
    /\ renderer.activeCells = {KeyCell[k] : k \in activeKeys}

\* one key was pressed and released, the other is held and highlighted
C36_Witness ==
    \E k \in InputIDs, j \in InputIDs :
        /\ noteLog[k] = [prev |-> "notestart", last |-> "noteend"]
        /\ j \in activeKeys
        /\ KeyCell[j] \in renderer.activeCells

\* C37: at most one render loop runs at any time, for every interleaving of
\* the handlers, a second play request while the first play() awaits the
\* initialization included: never more than one animation-frame callback is
\* pending, a transition from STOPPED to PLAYING starts the transport and
\* the loop once, pause() and stop() leave no frame scheduled, and no frame
\* is scheduled while the app is not PLAYING.
C37_SingleRenderLoop ==
    /\ [](Cardinality(frames) <= 1)
    /\ [][(appState = "STOPPED" /\ appState' = "PLAYING")
            => frameIds' = frameIds + 1]_vars
    /\ [][(pauseClick \/ stopClick \/ ended) => frames' = {}]_vars
    /\ [][appState' # "PLAYING" => frames' \subseteq frames]_vars

----------------------------------------------------------------------------
(* An uninterrupted run of the transport: start() on the idle engine, then  *)
(* only the clock advancing and getCurrentPosition() calls.                 *)

\* how many times the clock advances after the progression has started
MaxRunAdvances == 2

\* the amounts (ms) by which the clock advances during the run: to the end
\* of the silence, a count-in, eleven loops
RunDeltas == {181, 2000, 264000}

\* the clock advances during the run: any number of times until the
\* progression starts, MaxRunAdvances times in all after that
RunAdvance ==
    /\ ctxState = "running"
    /\ isPlaying
    /\ getCurrentPosition.phase = "playing" => advances < MaxRunAdvances
    /\ \E d \in RunDeltas :
        /\ clock' = clock + d
        /\ played' = IF script \in {"started", "resumed"} THEN played + d ELSE played
    /\ advances' = IF getCurrentPosition.phase = "playing" THEN advances + 1
                   ELSE advances
    /\ UNCHANGED <<ctxState, samplesLoaded, backingTrackCanPlayThrough, startTime,
                   isPlaying, pausedAt, ret, script>>
    /\ UNCHANGED <<voiceVars, loaderVars, engineVars, outerVars>>

\* time passes before the run, once
AdvanceBeforeRun ==
    /\ ~isPlaying
    /\ advances = 0
    /\ Advance

\* the start() that begins the run
startRun ==
    /\ ~isPlaying
    /\ start

NextRun ==
    \/ PreloadSamples
    \/ CanPlayThrough
    \/ Initialize
    \/ AdvanceBeforeRun
    \/ startRun
    \/ RunAdvance
    \/ queryPosition

SpecRun == Init /\ [][NextRun]_vars

\* the clock of a running context does not stand still
SpecRunFair == SpecRun /\ WF_vars(RunAdvance)

\* the place of a phase in the order waiting, count-in, playing
PhaseRank(phase) ==
    CASE phase = "waiting" -> 0
      [] phase = "count-in" -> 1
      [] phase = "playing" -> 2

\* C38: during an uninterrupted run the phase getCurrentPosition() reports
\* only moves forward, from waiting to count-in to playing; a run whose clock
\* keeps advancing reaches the phase playing; and once in that phase
\* loopsCompleted never decreases.
C38_PhasesMoveForward ==
    /\ [][isPlaying =>
            PhaseRank(getCurrentPosition.phase)' >= PhaseRank(getCurrentPosition.phase)]_vars
    /\ [][(isPlaying /\ getCurrentPosition.phase = "playing")
            => /\ getCurrentPosition.phase' = "playing"
               /\ getCurrentPosition.loopsCompleted' >= getCurrentPosition.loopsCompleted]_vars
    /\ isPlaying ~> (getCurrentPosition.phase = "playing")

\* a query during the run reported the phase playing after a completed loop
C38_Witness ==
    /\ isPlaying
    /\ ret.op = "getCurrentPosition"
    /\ ret.pos.phase = "playing"
    /\ ret.pos.loopsCompleted > 0

====
